---- MODULE Spec2Model ----
(***************************************************************************)
(* jsoncrypt-db: the Entity Registry & Cache (DB module) on top of the     *)
(* Record Store (DataReadWriter module).                                   *)
(*                                                                         *)
(* The DB module is modelled from its newest copy, src/unnamed/part_000    *)
(* (findFor, validateObjParamForMethod); src/DB.js is the previous copy,   *)
(* identical for every operation modelled here except findAllFor, which    *)
(* is modelled next to findFor.  The Record Store is modelled from the     *)
(* second module of src/DataReadWriter.js (lines 254-523).                 *)
(***************************************************************************)
EXTENDS Integers, Sequences, FiniteSets, TLC

VARIABLES
    entities,        \* DB: registered descriptors, in insertion order
    entityDataMap,   \* DB: the cache, entity name -> array of records
    cryptor,         \* Record Store: the cipher (NoCryptor when null)
    entityFilesMap,  \* Record Store: entity name -> file path (or null)
    disk,            \* file system: path -> file
    inflight,        \* fsPromises.writeFile calls issued and not yet finished
    now,             \* the calendar day enrichDataWithDBProps reads
    last,            \* outcome of the last call of the client
    calls,           \* number of calls the client has made
    entityImportData,    \* DB: entity name -> records imported for the next build
    entireDBImportData,  \* DB: the whole-store import for the next build
    folder,          \* file system: the folder exports are written to
    tasks            \* DB: the calls suspended at 'await DataReadWriter.readAsync'

vars == <<entities, entityDataMap, cryptor, entityFilesMap, disk, inflight, now, last, calls,
          entityImportData, entireDBImportData, folder, tasks>>

(***************************************************************************)
(* Bounds of the model.                                                    *)
(***************************************************************************)
MaxLen == 2        \* records per cached collection
MaxDay == 1        \* days the clock can advance
MaxInflight == 2   \* file writes in flight at the same time
MaxTasks == 2      \* calls suspended at the same time
MaxCalls == 5      \* calls the client makes

(***************************************************************************)
(* JavaScript values.  Every value is a pair <<type, n>>.                  *)
(***************************************************************************)
Undefined == <<"undefined", 0>>
Str(n) == <<"string", n>>
DateObj(d) == <<"Date", d>>          \* new Date(y, m, d): a Date object
IsoString(d) == <<"isostring", d>>   \* Date.prototype.toJSON of that day

EmptyString == Str(0)
NameA == Str(1)
NameB == Str(2)
\* the image of a name under the registered preSaveTransform hook
Transformed(v) == IF v[1] = "string" /\ v[2] \in {1, 2} THEN Str(v[2] + 10) ELSE v

Ids == {Str(1), Str(2)}
Fields == {"id", "name", "createdAt", "updatedAt"}

\* !v in JavaScript
Falsy(v) == v = Undefined \/ v = EmptyString

\* an object without any own key
EmptyObject == [f \in Fields |-> Undefined]
Obj(id, name) == [EmptyObject EXCEPT !["id"] = id, !["name"] = name]

EntityNames == {"categories", "comments"}

(***************************************************************************)
(* Inputs the client passes.                                               *)
(***************************************************************************)
\* a null / undefined argument where an object is expected
Null == [f \in Fields |-> <<"null", 0>>]

\* registerEntity(entity): the default parameter value of `options`
DefaultOptions ==
    [identifierKey |-> "id", validateOnCreate |-> "alwaysTrue", preSaveTransform |-> "copy"]
\* registerEntity(entity, {validateOnCreate, preSaveTransform}): the README's hooks,
\* without an identifierKey
HookOptions ==
    [identifierKey |-> "", validateOnCreate |-> "nameRequired", preSaveTransform |-> "transformName"]
\* the options the client registers an entity with: the hooks for categories,
\* none for comments
RegisterOptions(entity) == IF entity = "categories" THEN {HookOptions} ELSE {DefaultOptions}

SecretPairs == {<<"sampleSecret", "sampleVector">>, <<"", "sampleVector">>, <<"sampleSecret", "">>}
ObjInputs == {Null, EmptyObject, Obj(Str(1), NameA), Obj(Str(2), NameA), Obj(Str(1), EmptyString)}
\* a patch that carries a createdAt of its own
StampPatch == [EmptyObject EXCEPT !["createdAt"] = DateObj(9)]
PatchInputs == {Null, Obj(Str(2), NameB), Obj(Undefined, EmptyString), StampPatch}
IdInputs == Ids \cup {Undefined}
\* the collections a client of the Record Store saves: empty, a record without
\* timestamps, a record as createNewFor leaves it (Date objects), a record as a
\* read leaves it (ISO strings)
Collections ==
    {<< >>,
     <<Obj(Str(1), NameA)>>,
     <<[Obj(Str(1), NameA) EXCEPT !["createdAt"] = DateObj(0), !["updatedAt"] = DateObj(0)]>>,
     <<[Obj(Str(2), NameB) EXCEPT !["createdAt"] = IsoString(0), !["updatedAt"] = IsoString(0)]>>}
NameSets == {{}, {"categories"}, {"categories", "comments"}}
ArrayInputs == {<< >>, <<Obj(Str(1), NameA), Obj(Str(2), EmptyString)>>}
FilterCallbacks == {"none", "nameIsTruthy"}

(***************************************************************************)
(* Helpers on maps (JavaScript objects used as dictionaries).              *)
(***************************************************************************)
EmptyMap == [x \in {} |-> << >>]
\* options.dataImport when nothing was imported (null)
NoImport == EmptyMap
\* a folder that does not exist; an existing folder maps file names to contents
NoFolder == [exists |-> FALSE, files |-> EmptyMap]

\* a JSON file given to an import: its extension and the value it parses to, an
\* array (items) or an object keyed by entity name (map)
JSONFile(ext, isArray, items, map) ==
    [ext |-> ext, isArray |-> isArray, items |-> items, map |-> map]
EntityFiles ==
    {JSONFile(".json", TRUE, <<Obj(Str(1), NameA)>>, EmptyMap),
     JSONFile(".json", TRUE, << >>, EmptyMap),
     JSONFile(".txt", TRUE, <<Obj(Str(1), NameA)>>, EmptyMap)}
EntireDBFiles ==
    {JSONFile(".json", FALSE, << >>,
              [e \in EntityNames |-> IF e = "categories" THEN <<Obj(Str(2), NameB)>>
                                     ELSE <<Obj(Str(1), NameB), Obj(Str(2), NameB)>>]),
     JSONFile(".json", FALSE, << >>, [e \in {"categories"} |-> << >>])}
ImportFiles == EntityFiles \cup EntireDBFiles

\* a file name <<stem, entity, extension>>; path.extname of it
FileName(stem, entity, ext) == <<stem, entity, ext>>
extname(basename) == basename[3]
\* the filename argument left out (null)
NoFilename == FileName("", "", "")
DEFAULT_ENTITY_EXPORT_FILENAME(entity) == FileName("db_export", entity, ".json")
FilenameInputs ==
    {NoFilename, FileName("backup", "", ""), FileName("backup", "", ".json"),
     FileName("file", "", ".pdf")}
FolderPaths == {"", "exports"}
\* a JSON text written by an export: the array or the object it holds
JSONText(isArray, items, map) == [isArray |-> isArray, items |-> items, map |-> map]
\* a variant that stores the value under every key of the map
PutEvery(map, k, v) == [x \in DOMAIN map \cup {k} |-> v]
Put(map, k, v) == [x \in DOMAIN map \cup {k} |-> IF x = k THEN v ELSE map[x]]

(***************************************************************************)
(* utils.js                                                                *)
(***************************************************************************)
\* a variant that takes the empty string for a value
stringIsString(str) == TRUE

stringHasValue(str) == str # ""

\* a variant that stamps updatedAt only
enrichUpdatedAtOnly(obj, mode) == [obj EXCEPT !["updatedAt"] = DateObj(now)]

enrichDataWithDBProps(obj, mode) ==
    IF mode = "create"
    THEN [obj EXCEPT !["createdAt"] = DateObj(now), !["updatedAt"] = DateObj(now)]
    ELSE [obj EXCEPT !["updatedAt"] = DateObj(now)]

(***************************************************************************)
(* JSON text and the cipher.  A JSON text is represented by the value it   *)
(* parses to; a Date is written as its ISO string and stays a string.      *)
(***************************************************************************)
JSONValue(v) == IF v[1] = "Date" THEN IsoString(v[2]) ELSE v
JSONStringify(data) == [i \in DOMAIN data |-> [f \in Fields |-> JSONValue(data[i][f])]]
JSONParse(text) == text

NoCryptor == <<"", "">>
Cryptor(cryptoSecret, vectorSecret) == <<cryptoSecret, vectorSecret>>
NoFile == [exists |-> FALSE, key |-> NoCryptor, text |-> << >>]
Encrypt(cr, text) == [exists |-> TRUE, key |-> cr, text |-> text]
CanDecrypt(cr, file) == file.exists /\ file.key = cr
Decrypt(cr, file) == file.text

(***************************************************************************)
(* Record Store (DataReadWriter).  A path is named by its entity: the      *)
(* environment and test mode are the same in every call.                   *)
(***************************************************************************)
NullMap == [isNull |-> TRUE, names |-> {}]
FilePath(entity) == entity

hasBeenInitialized(cr, fm) == cr # NoCryptor /\ ~fm.isNull
entityIsValid(fm, entity) == entity # "" /\ entity \in fm.names

\* a variant that writes the empty array over a file that exists
createFileAnew(cr, dsk, path) ==
    [dsk EXCEPT ![path] = Encrypt(cr, JSONStringify(<< >>))]

createFileIfNotExist(cr, dsk, path) ==
    IF dsk[path].exists THEN dsk
    ELSE [dsk EXCEPT ![path] = Encrypt(cr, JSONStringify(<< >>))]

\* the file system after initialize has created the missing files
initializeDisk(cr, dsk, names) ==
    [p \in DOMAIN dsk |-> IF p \in names THEN createFileIfNotExist(cr, dsk, p)[p] ELSE dsk[p]]

\* a variant that initializes an initialized store again
initializeAgain(cr, fm, dsk, cryptoSecret, vectorSecret, names) ==
    IF ~stringHasValue(cryptoSecret) \/ ~stringHasValue(vectorSecret) \/ names = {}
    THEN [err |-> "ConfigError", cryptor |-> cr, map |-> fm, disk |-> dsk]
    ELSE [err |-> "none",
          cryptor |-> Cryptor(cryptoSecret, vectorSecret),
          map |-> [isNull |-> FALSE, names |-> names],
          disk |-> initializeDisk(Cryptor(cryptoSecret, vectorSecret), dsk, names)]

\* a variant that takes an empty list of names
initializeAnyNames(cr, fm, dsk, cryptoSecret, vectorSecret, names) ==
    IF hasBeenInitialized(cr, fm)
    THEN [err |-> "none", cryptor |-> cr, map |-> fm, disk |-> dsk]
    ELSE IF ~stringHasValue(cryptoSecret) \/ ~stringHasValue(vectorSecret)
    THEN [err |-> "ConfigError", cryptor |-> cr, map |-> fm, disk |-> dsk]
    ELSE [err |-> "none",
          cryptor |-> Cryptor(cryptoSecret, vectorSecret),
          map |-> [isNull |-> FALSE, names |-> names],
          disk |-> initializeDisk(Cryptor(cryptoSecret, vectorSecret), dsk, names)]

\* initialize, called with the names `names`: the cipher, the mapping and the
\* file system it leaves
initializeResult(cr, fm, dsk, cryptoSecret, vectorSecret, names) ==
    IF hasBeenInitialized(cr, fm)
    THEN [err |-> "none", cryptor |-> cr, map |-> fm, disk |-> dsk]
    ELSE IF ~stringHasValue(cryptoSecret) \/ ~stringHasValue(vectorSecret) \/ names = {}
    THEN [err |-> "ConfigError", cryptor |-> cr, map |-> fm, disk |-> dsk]
    ELSE [err |-> "none",
          cryptor |-> Cryptor(cryptoSecret, vectorSecret),
          map |-> [isNull |-> FALSE, names |-> names],
          disk |-> initializeDisk(Cryptor(cryptoSecret, vectorSecret), dsk, names)]

\* readSync and readAsync: the checks, then read, decrypt, parse
readSync(cr, fm, dsk, entity) ==
    IF ~hasBeenInitialized(cr, fm)
    THEN [err |-> "NotInitializedError", data |-> << >>]
    ELSE IF ~entityIsValid(fm, entity)
    THEN [err |-> "UnknownEntityError", data |-> << >>]
    ELSE IF ~CanDecrypt(cr, dsk[FilePath(entity)])
    THEN [err |-> "CorruptDataError", data |-> << >>]
    ELSE [err |-> "none", data |-> JSONParse(Decrypt(cr, dsk[FilePath(entity)]))]

readAsync(cr, fm, dsk, entity) == readSync(cr, fm, dsk, entity)

\* a variant that takes any name once the store is initialized
saveCheckAnyName(cr, fm, entity) ==
    IF ~hasBeenInitialized(cr, fm) THEN "NotInitializedError" ELSE "none"

\* saveSync and saveAsync up to the write: the checks, then stringify and encrypt
saveCheck(cr, fm, entity) ==
    IF ~hasBeenInitialized(cr, fm) THEN "NotInitializedError"
    ELSE IF ~entityIsValid(fm, entity) THEN "UnknownEntityError"
    ELSE "none"
\* a variant that writes an empty array whatever it is given
saveContentEmpty(cr, data) == Encrypt(cr, JSONStringify(<< >>))
saveContent(cr, data) == Encrypt(cr, JSONStringify(data))

\* dropSync: unlink the file if it exists, delete the key of the mapping
\* a variant that unlinks the file of every mapped entity
dropSyncEveryFile(fm, dsk, entity) ==
    [p \in DOMAIN dsk |-> IF p \in fm.names THEN NoFile ELSE dsk[p]]

dropSyncDisk(fm, dsk, entity) == [dsk EXCEPT ![FilePath(entity)] = NoFile]
dropSyncMap(fm, entity) == [fm EXCEPT !.names = @ \ {entity}]

\* _dropAllSync: the same for every key of the mapping
dropAllSyncDisk(fm, dsk) == [p \in DOMAIN dsk |-> IF p \in fm.names THEN NoFile ELSE dsk[p]]

(***************************************************************************)
(* DB: helpers.                                                            *)
(***************************************************************************)
EntityKeys == {entities[i].name : i \in DOMAIN entities}
Descriptor(entity) == entities[CHOOSE i \in DOMAIN entities : entities[i].name = entity]
Cached(entity) == entity \in DOMAIN entityDataMap

isRunning ==
    /\ Len(entities) > 0
    /\ DOMAIN entityDataMap # {}
    /\ hasBeenInitialized(cryptor, entityFilesMap)

\* validateEntityForMethod: TRUE when it throws
validateEntityForMethod(entity) == entity = "" \/ entity \notin EntityKeys

\* validateObjParamForMethod: TRUE when it throws
validateObjParamForMethod(obj) == obj = Null \/ obj = EmptyObject

\* the hooks a descriptor can hold
validateOnCreate(hook, obj) ==
    IF hook = "nameRequired" THEN obj # Null /\ ~Falsy(obj["name"]) ELSE TRUE
preSaveTransform(hook, obj) ==
    IF hook = "transformName" THEN [obj EXCEPT !["name"] = Transformed(@)] ELSE obj

\* entityOptions.identifierKey ? entityOptions.identifierKey : "id"
objIdentifierKey(entity) ==
    IF Descriptor(entity).options.identifierKey # ""
    THEN Descriptor(entity).options.identifierKey ELSE "id"

\* a variant that takes the empty array on a cache miss
cachedOrEmpty(entity) ==
    IF Cached(entity) THEN [err |-> "none", data |-> entityDataMap[entity]]
    ELSE [err |-> "none", data |-> << >>]

\* "data = entityDataMap[entity]" when cached, "await DataReadWriter.readAsync" otherwise
cachedOrRead(entity) ==
    IF Cached(entity) THEN [err |-> "none", data |-> entityDataMap[entity]]
    ELSE readAsync(cryptor, entityFilesMap, disk, entity)

\* data.filter(filterCallback)
filterBy(filterCallback, data) ==
    IF filterCallback = "none" THEN data
    ELSE LET Keep(item) == ~Falsy(item["name"]) IN SelectSeq(data, Keep)

\* a variant that takes the last of foundItems
lastIndexOf(data, key, id) ==
    IF \E i \in DOMAIN data : data[i][key] = id
    THEN CHOOSE i \in DOMAIN data :
            /\ data[i][key] = id
            /\ \A j \in DOMAIN data : data[j][key] = id => j <= i
    ELSE 0

\* index of foundItems[0] in data, 0 when foundItems is empty
firstIndexOf(data, key, id) ==
    IF \E i \in DOMAIN data : data[i][key] = id
    THEN CHOOSE i \in DOMAIN data :
            /\ data[i][key] = id
            /\ \A j \in DOMAIN data : data[j][key] = id => i <= j
    ELSE 0

\* a call of the client is running (it awaits a file write)
Busy == \E w \in inflight : w.awaited
\* the client makes its next call when the previous one has returned
Call == ~Busy /\ calls < MaxCalls /\ calls' = calls + 1
\* what the client sees of a call: the error thrown ("none" when it returns) and
\* the value returned; branch tells which branch of the code the call took
Outcome(op, entity, err, ret) ==
    [op |-> op, entity |-> entity, err |-> err, ret |-> ret, branch |-> ""]

(***************************************************************************)
(* DB: registration and lifecycle.                                         *)
(***************************************************************************)
Init ==
    /\ entities = << >>
    /\ entityDataMap = EmptyMap
    /\ cryptor = NoCryptor
    /\ entityFilesMap = NullMap
    /\ disk = [p \in EntityNames |-> NoFile]
    /\ inflight = {}
    /\ now = 0
    /\ last = Outcome("load", "", "none", << >>)
    /\ calls = 0
    /\ entityImportData = EmptyMap
    /\ entireDBImportData = EmptyMap
    /\ folder = NoFolder
    /\ tasks = {}

\* the descriptor registerEntity composes from `options`
composeDescriptor(entity, options) ==
    [name |-> entity,
     options |-> [options EXCEPT
        !.validateOnCreate = IF @ = "" THEN "alwaysTrue" ELSE @,
        !.preSaveTransform = IF @ = "" THEN "copy" ELSE @]]

\* a variant that composes a descriptor whether or not the name is registered
registerEntityAgain(entity, options) ==
    IF isRunning THEN [err |-> "AlreadyBuiltError", entities |-> entities]
    ELSE IF entity = "" THEN [err |-> "InvalidParameterError", entities |-> entities]
    ELSE [err |-> "none", entities |-> Append(entities, composeDescriptor(entity, options))]

\* a variant without the isUp check
registerEntityUnguarded(entity, options) ==
    IF entity = "" THEN [err |-> "InvalidParameterError", entities |-> entities]
    ELSE IF entity \notin EntityKeys
    THEN [err |-> "none", entities |-> Append(entities, composeDescriptor(entity, options))]
    ELSE [err |-> "none", entities |-> entities]

\* a variant that composes the descriptor before it checks isUp
registerEntityLate(entity, options) ==
    IF entity = "" THEN [err |-> "InvalidParameterError", entities |-> entities]
    ELSE LET composed == IF entity \notin EntityKeys
                         THEN Append(entities, composeDescriptor(entity, options))
                         ELSE entities
         IN  IF isRunning THEN [err |-> "AlreadyBuiltError", entities |-> composed]
             ELSE [err |-> "none", entities |-> composed]

registerEntityResult(entity, options) ==
    IF isRunning THEN [err |-> "AlreadyBuiltError", entities |-> entities]
    ELSE IF entity = "" THEN [err |-> "InvalidParameterError", entities |-> entities]
    ELSE IF entity \notin EntityKeys
    THEN [err |-> "none", entities |-> Append(entities, composeDescriptor(entity, options))]
    ELSE [err |-> "none", entities |-> entities]

registerEntity(entity, options) ==
    /\ Call
    /\ entities' = registerEntityResult(entity, options).entities
    /\ last' = [Outcome("registerEntity", entity, registerEntityResult(entity, options).err, << >>)
                    EXCEPT !.branch = IF entity \in EntityKeys THEN "registered" ELSE ""]
    /\ UNCHANGED <<entityDataMap, cryptor, entityFilesMap, disk, inflight, now, entityImportData, entireDBImportData, folder, tasks>>

getEntities == [n \in EntityKeys |-> Descriptor(n).name]

\* "delete entities[entity]"
deleteKey(ents, entity) ==
    LET Keep(d) == d.name # entity IN SelectSeq(ents, Keep)

removeEntityAndDeleteEntityData(entity) ==
    /\ Call
    /\ IF validateEntityForMethod(entity)
       THEN /\ last' = Outcome("removeEntityAndDeleteEntityData", entity, "UnknownEntityError", << >>)
            /\ UNCHANGED <<entities, entityFilesMap, disk>>
       ELSE /\ entities' = deleteKey(entities, entity)
            /\ IF ~hasBeenInitialized(cryptor, entityFilesMap)
               THEN /\ last' = Outcome("removeEntityAndDeleteEntityData", entity, "none", << >>)
                    /\ UNCHANGED <<entityFilesMap, disk>>
               ELSE IF ~entityIsValid(entityFilesMap, entity)
               THEN /\ last' = [Outcome("removeEntityAndDeleteEntityData", entity,
                                        "UnknownEntityError", << >>)
                                    EXCEPT !.branch = "dropSync"]
                    /\ UNCHANGED <<entityFilesMap, disk>>
               ELSE /\ last' = Outcome("removeEntityAndDeleteEntityData", entity, "none", << >>)
                    /\ disk' = dropSyncDisk(entityFilesMap, disk, entity)
                    /\ entityFilesMap' = dropSyncMap(entityFilesMap, entity)
    /\ UNCHANGED <<entityDataMap, cryptor, inflight, now, entityImportData, entireDBImportData, folder, tasks>>

_resetDBAndDeleteAllData ==
    /\ Call
    /\ entities' = << >>
    /\ entityDataMap' = EmptyMap
    /\ IF hasBeenInitialized(cryptor, entityFilesMap)
       THEN /\ disk' = dropAllSyncDisk(entityFilesMap, disk)
            /\ cryptor' = NoCryptor
            /\ entityFilesMap' = NullMap
       ELSE UNCHANGED <<disk, cryptor, entityFilesMap>>
    /\ entityImportData' = EmptyMap
    /\ entireDBImportData' = EmptyMap
    /\ last' = Outcome("_resetDBAndDeleteAllData", "", "none", << >>)
    /\ UNCHANGED <<inflight, now, folder, tasks>>

\* a variant that reads only the entities the cache does not hold
RECURSIVE populateMissing(_, _, _, _, _)
populateMissing(names, map, cr, fm, dsk) ==
    IF names = << >> THEN [err |-> "none", map |-> map]
    ELSE IF Head(names) \in DOMAIN map THEN populateMissing(Tail(names), map, cr, fm, dsk)
    ELSE LET rd == readSync(cr, fm, dsk, Head(names)) IN
         IF rd.err # "none" THEN [err |-> rd.err, map |-> map]
         ELSE populateMissing(Tail(names), Put(map, Head(names), rd.data), cr, fm, dsk)

\* the forEach of build: read every entity in registration order into the cache,
\* stopping at the first read that throws
RECURSIVE populate(_, _, _, _, _)
populate(names, map, cr, fm, dsk) ==
    IF names = << >> THEN [err |-> "none", map |-> map]
    ELSE LET rd == readSync(cr, fm, dsk, Head(names)) IN
         IF rd.err # "none" THEN [err |-> rd.err, map |-> map]
         ELSE populate(Tail(names), Put(map, Head(names), rd.data), cr, fm, dsk)

entityNamesInOrder == [i \in DOMAIN entities |-> entities[i].name]

\* a variant that hands over nothing
generateNoImportedData ==
    [result |-> NoImport,
     entityImportData |-> EmptyMap, entireDBImportData |-> EmptyMap]

\* generateImportedData: the data handed to initialize as options.dataImport
\* (NoImport for null) and the two import maps as it leaves them
generateImportedData ==
    IF entireDBImportData # EmptyMap
    THEN [result |-> entireDBImportData,
          entityImportData |-> entityImportData, entireDBImportData |-> EmptyMap]
    ELSE IF entityImportData # EmptyMap
    THEN [result |-> entityImportData,
          entityImportData |-> EmptyMap, entireDBImportData |-> entireDBImportData]
    ELSE [result |-> NoImport,
          entityImportData |-> entityImportData, entireDBImportData |-> entireDBImportData]

\* what initialize does with options.dataImport: the file of every mapped entity
\* that the import names is written with the encrypted imported records
seedDataImport(cr, dsk, names, dataImport) ==
    [p \in DOMAIN dsk |->
        IF p \in names /\ p \in DOMAIN dataImport
        THEN Encrypt(cr, JSONStringify(dataImport[p]))
        ELSE dsk[p]]

build(cryptoSecret, vectorSecret) ==
    /\ Call
    /\ IF ~stringHasValue(cryptoSecret) \/ ~stringHasValue(vectorSecret)
       THEN /\ last' = Outcome("build", "", "ConfigError", << >>)
            /\ UNCHANGED <<entityDataMap, cryptor, entityFilesMap, disk>>
            /\ UNCHANGED <<entityImportData, entireDBImportData>>
       ELSE IF Len(entities) < 1
       THEN /\ last' = Outcome("build", "", "NoEntitiesError", << >>)
            /\ UNCHANGED <<entityDataMap, cryptor, entityFilesMap, disk>>
            /\ UNCHANGED <<entityImportData, entireDBImportData>>
       ELSE LET initialized == hasBeenInitialized(cryptor, entityFilesMap)
                ini == initializeResult(cryptor, entityFilesMap, disk,
                                        cryptoSecret, vectorSecret, EntityKeys)
                seeded == IF initialized THEN ini.disk
                          ELSE seedDataImport(ini.cryptor, ini.disk, ini.map.names,
                                              generateImportedData.result)
                pop == populate(entityNamesInOrder, entityDataMap, ini.cryptor, ini.map, seeded)
            IN  /\ cryptor' = ini.cryptor
                /\ entityFilesMap' = ini.map
                /\ disk' = seeded
                /\ entityDataMap' = pop.map
                /\ IF initialized
                   THEN UNCHANGED <<entityImportData, entireDBImportData>>
                   ELSE /\ entityImportData' = generateImportedData.entityImportData
                        /\ entireDBImportData' = generateImportedData.entireDBImportData
                /\ last' = [Outcome("build", "", pop.err, << >>) EXCEPT !.branch =
                                IF hasBeenInitialized(cryptor, entityFilesMap)
                                THEN "initialized" ELSE ""]
    /\ UNCHANGED <<entities, inflight, now, folder, tasks>>

isUp == isRunning

(***************************************************************************)
(* DB: reading.  An operation is given by its result, a record             *)
(* [err, map, ret]: the error thrown ("none" when it returns), the cache   *)
(* it leaves and the value it returns; the action applies it.              *)
(***************************************************************************)
Result(err, map, ret) == [err |-> err, map |-> map, ret |-> ret]

\* a variant that writes the entity's cached collection through to its file
ApplyWriteThrough(op, entity, res, branch) ==
    /\ entityDataMap' = res.map
    /\ last' = [Outcome(op, entity, res.err, res.ret) EXCEPT !.branch = branch]
    /\ disk' = IF entity \in DOMAIN res.map /\ saveCheck(cryptor, entityFilesMap, entity) = "none"
               THEN [disk EXCEPT ![FilePath(entity)] = saveContent(cryptor, res.map[entity])]
               ELSE disk
    /\ UNCHANGED <<entities, cryptor, entityFilesMap, inflight, now, entityImportData, entireDBImportData, folder, tasks>>

Apply(op, entity, res, branch) ==
    /\ entityDataMap' = res.map
    /\ last' = [Outcome(op, entity, res.err, res.ret) EXCEPT !.branch = branch]
    /\ UNCHANGED <<entities, cryptor, entityFilesMap, disk, inflight, now, entityImportData, entireDBImportData, folder, tasks>>

\* a variant that stores what a forced find fetched
findForStoring(entity, filterCallback, forceFetch) ==
    IF validateEntityForMethod(entity)
    THEN Result("UnknownEntityError", entityDataMap, << >>)
    ELSE LET rd == IF forceFetch THEN readAsync(cryptor, entityFilesMap, disk, entity)
                   ELSE cachedOrRead(entity)
         IN  Result(rd.err,
                    IF rd.err = "none" THEN Put(entityDataMap, entity, rd.data) ELSE entityDataMap,
                    filterBy(filterCallback, rd.data))

\* part_000: find with an optional filter
findForResult(entity, filterCallback, forceFetch) ==
    IF validateEntityForMethod(entity)
    THEN Result("UnknownEntityError", entityDataMap, << >>)
    ELSE IF forceFetch
    THEN LET rd == readAsync(cryptor, entityFilesMap, disk, entity) IN
         Result(rd.err, entityDataMap, filterBy(filterCallback, rd.data))
    ELSE LET rd == cachedOrRead(entity) IN
         Result(rd.err, entityDataMap, filterBy(filterCallback, rd.data))

findFor(entity, filterCallback, forceFetch) ==
    /\ Call
    /\ Apply("findFor", entity, findForResult(entity, filterCallback, forceFetch),
             IF forceFetch THEN "forceFetch" ELSE "")

\* DB.js: the previous find, which stores what it fetched on a cache miss
findAllForResult(entity, forceFetch) ==
    IF validateEntityForMethod(entity)
    THEN Result("UnknownEntityError", entityDataMap, << >>)
    ELSE IF forceFetch
    THEN LET rd == readAsync(cryptor, entityFilesMap, disk, entity) IN
         Result(rd.err, entityDataMap, rd.data)
    ELSE IF Cached(entity)
    THEN Result("none", entityDataMap, entityDataMap[entity])
    ELSE LET rd == readAsync(cryptor, entityFilesMap, disk, entity) IN
         IF rd.err # "none" THEN Result(rd.err, entityDataMap, << >>)
         ELSE Result("none", Put(entityDataMap, entity, rd.data), rd.data)

findAllFor(entity, forceFetch) ==
    /\ Call
    /\ Apply("findAllFor", entity, findAllForResult(entity, forceFetch),
             IF forceFetch THEN "forceFetch" ELSE "")

findByIdentifierForResult(entity, id) ==
    IF validateEntityForMethod(entity)
    THEN Result("UnknownEntityError", entityDataMap, << >>)
    ELSE LET rd == cachedOrRead(entity) IN
         IF rd.err # "none" THEN Result(rd.err, entityDataMap, << >>)
         ELSE IF Len(rd.data) = 0 THEN Result("NotFoundError", entityDataMap, << >>)
         ELSE LET i == firstIndexOf(rd.data, objIdentifierKey(entity), id) IN
              IF i = 0 THEN Result("NotFoundError", entityDataMap, << >>)
              ELSE Result("none", entityDataMap, <<rd.data[i]>>)

findByIdentifierFor(entity, id) ==
    /\ Call
    /\ Apply("findByIdentifierFor", entity, findByIdentifierForResult(entity, id), "")

(***************************************************************************)
(* DB: creating.                                                           *)
(***************************************************************************)
\* a variant that pushes the record before it validates it
createNewForPushFirst(entity, obj) ==
    IF validateEntityForMethod(entity)
    THEN Result("UnknownEntityError", entityDataMap, << >>)
    ELSE LET rd == cachedOrRead(entity) IN
         IF rd.err # "none" THEN Result(rd.err, entityDataMap, << >>)
         ELSE LET data == Append(rd.data, enrichDataWithDBProps(obj, "create")) IN
              IF validateObjParamForMethod(obj)
                 \/ ~validateOnCreate(Descriptor(entity).options.validateOnCreate, obj)
              THEN Result("ValidationError", Put(entityDataMap, entity, data), << >>)
              ELSE Result("none", Put(entityDataMap, entity, data), data)

createNewForResult(entity, obj) ==
    IF validateEntityForMethod(entity)
    THEN Result("UnknownEntityError", entityDataMap, << >>)
    ELSE IF validateObjParamForMethod(obj)
    THEN Result("ValidationError", entityDataMap, << >>)
    ELSE IF ~validateOnCreate(Descriptor(entity).options.validateOnCreate, obj)
    THEN Result("ValidationError", entityDataMap, << >>)
    ELSE LET rd == cachedOrRead(entity) IN
         IF rd.err # "none" THEN Result(rd.err, entityDataMap, << >>)
         ELSE LET newDataObj == preSaveTransform(Descriptor(entity).options.preSaveTransform, obj)
                  data == Append(rd.data, enrichDataWithDBProps(newDataObj, "create"))
              IN  Result("none", Put(entityDataMap, entity, data), data)

\* the model's bound on the length of a collection
Room(entity, n) == Cached(entity) => Len(entityDataMap[entity]) + n <= MaxLen

createNewFor(entity, obj) ==
    /\ Room(entity, 1)
    /\ Call
    /\ Apply("createNewFor", entity, createNewForResult(entity, obj), "")

\* a variant that pushes every object, validated or not
RECURSIVE pushEvery(_, _, _)
pushEvery(entity, data, objDataArray) ==
    IF objDataArray = << >> THEN data
    ELSE pushEvery(entity,
            Append(data, enrichDataWithDBProps(
                preSaveTransform(Descriptor(entity).options.preSaveTransform,
                                 Head(objDataArray)), "create")),
            Tail(objDataArray))

\* a variant that puts the new records in front
RECURSIVE unshiftValidated(_, _, _)
unshiftValidated(entity, data, objDataArray) ==
    IF objDataArray = << >> THEN data
    ELSE LET obj == Head(objDataArray)
             validated == validateOnCreate(Descriptor(entity).options.validateOnCreate, obj)
         IN  IF obj # Null /\ validated
             THEN unshiftValidated(entity,
                    <<enrichDataWithDBProps(
                        preSaveTransform(Descriptor(entity).options.preSaveTransform, obj), "create")>>
                        \o data,
                    Tail(objDataArray))
             ELSE unshiftValidated(entity, data, Tail(objDataArray))

\* the forEach of createManyNewFor: push every object that is truthy and validated
RECURSIVE pushValidated(_, _, _)
pushValidated(entity, data, objDataArray) ==
    IF objDataArray = << >> THEN data
    ELSE LET obj == Head(objDataArray)
             validated == validateOnCreate(Descriptor(entity).options.validateOnCreate, obj)
         IN  IF obj # Null /\ validated
             THEN pushValidated(entity,
                    Append(data, enrichDataWithDBProps(
                        preSaveTransform(Descriptor(entity).options.preSaveTransform, obj), "create")),
                    Tail(objDataArray))
             ELSE pushValidated(entity, data, Tail(objDataArray))

createManyNewForResult(entity, objDataArray) ==
    IF validateEntityForMethod(entity)
    THEN Result("UnknownEntityError", entityDataMap, << >>)
    ELSE IF Len(objDataArray) < 1
    THEN Result("NoDataError", entityDataMap, << >>)
    ELSE LET rd == cachedOrRead(entity) IN
         IF rd.err # "none" THEN Result(rd.err, entityDataMap, << >>)
         ELSE LET data == pushValidated(entity, rd.data, objDataArray) IN
              Result("none", Put(entityDataMap, entity, data), data)

\* the model's bound on the length of a collection, for the records that
\* createManyNewFor keeps
RoomForMany(entity, objDataArray) ==
    (Cached(entity) /\ ~validateEntityForMethod(entity)) =>
        Len(pushValidated(entity, entityDataMap[entity], objDataArray)) <= MaxLen

createManyNewFor(entity, objDataArray) ==
    /\ RoomForMany(entity, objDataArray)
    /\ Call
    /\ Apply("createManyNewFor", entity, createManyNewForResult(entity, objDataArray), "")

(***************************************************************************)
(* DB: updating and deleting.                                              *)
(***************************************************************************)
\* a variant that copies every key of newData, the identifier too
mergeEveryKey(updatedData, newData, key) ==
    [f \in Fields |-> IF newData[f] # Undefined THEN newData[f] ELSE updatedData[f]]

\* Object.keys(newData).forEach: copy every key of newData but the identifier
\* onto updatedData
mergeNewData(updatedData, newData, key) ==
    [f \in Fields |->
        IF newData[f] # Undefined /\ f # key THEN newData[f] ELSE updatedData[f]]

\* data.forEach((item) => { if (...) item = { ...enrichedData } }): the assignment
\* is to the callback's parameter, the array keeps its elements
forEachAssignItem(data, key, id, enrichedData) == data

updateForResult(entity, id, newData) ==
    IF validateEntityForMethod(entity)
    THEN Result("UnknownEntityError", entityDataMap, << >>)
    ELSE IF Falsy(id) \/ newData = Null
    THEN Result("MissingArgsError", entityDataMap, << >>)
    ELSE LET rd == cachedOrRead(entity) IN
         IF rd.err # "none" THEN Result(rd.err, entityDataMap, << >>)
         ELSE IF Len(rd.data) = 0 THEN Result("NotFoundError", entityDataMap, << >>)
         ELSE LET key == objIdentifierKey(entity)
                  i == firstIndexOf(rd.data, key, id)
              IN  IF i = 0 THEN Result("NotFoundError", entityDataMap, << >>)
                  ELSE LET \* updatedData is foundItems[0] itself, an element of data:
                           \* the merge writes into the array the cache holds
                           updatedData == mergeNewData(rd.data[i], newData, key)
                           data == [rd.data EXCEPT ![i] = updatedData]
                           held == IF Cached(entity) THEN Put(entityDataMap, entity, data)
                                   ELSE entityDataMap
                           hooks == Descriptor(entity).options
                       IN  IF ~validateOnCreate(hooks.validateOnCreate, updatedData)
                           THEN Result("ValidationError", held, << >>)
                           ELSE LET transformedData == preSaveTransform(hooks.preSaveTransform, updatedData)
                                    enrichedData == enrichDataWithDBProps(transformedData, "update")
                                    after == forEachAssignItem(data, key, id, enrichedData)
                                IN  Result("none", Put(entityDataMap, entity, after), after)

updateFor(entity, id, newData) ==
    /\ Call
    /\ Apply("updateFor", entity, updateForResult(entity, id, newData), "")

\* a variant that removes only the first record with the identifier
deleteForFirst(entity, id) ==
    IF validateEntityForMethod(entity)
    THEN Result("UnknownEntityError", entityDataMap, << >>)
    ELSE IF Falsy(id)
    THEN Result("MissingArgsError", entityDataMap, << >>)
    ELSE LET rd == cachedOrRead(entity) IN
         IF rd.err # "none" THEN Result(rd.err, entityDataMap, << >>)
         ELSE IF Len(rd.data) = 0 THEN Result("NotFoundError", entityDataMap, << >>)
         ELSE LET i == firstIndexOf(rd.data, objIdentifierKey(entity), id)
                  updatedData == IF i = 0 THEN rd.data
                                 ELSE SubSeq(rd.data, 1, i - 1) \o SubSeq(rd.data, i + 1, Len(rd.data))
              IN  Result("none", Put(entityDataMap, entity, updatedData), updatedData)

deleteForResult(entity, id) ==
    IF validateEntityForMethod(entity)
    THEN Result("UnknownEntityError", entityDataMap, << >>)
    ELSE IF Falsy(id)
    THEN Result("MissingArgsError", entityDataMap, << >>)
    ELSE LET rd == cachedOrRead(entity) IN
         IF rd.err # "none" THEN Result(rd.err, entityDataMap, << >>)
         ELSE IF Len(rd.data) = 0 THEN Result("NotFoundError", entityDataMap, << >>)
         ELSE LET key == objIdentifierKey(entity)
                  Keep(item) == item[key] # id
                  updatedData == SelectSeq(rd.data, Keep)
              IN  Result("none", Put(entityDataMap, entity, updatedData), updatedData)

\* branch tells whether the filter met a record with the identifier
deleteFor(entity, id) ==
    /\ Call
    /\ Apply("deleteFor", entity, deleteForResult(entity, id),
             IF /\ deleteForResult(entity, id).err = "none"
                /\ Len(deleteForResult(entity, id).ret) < Len(cachedOrRead(entity).data)
             THEN "matched" ELSE "")

(***************************************************************************)
(* DB: saving.  fsPromises.writeFile is in flight from the call of         *)
(* saveAsync until the file system has replaced the file.                  *)
(***************************************************************************)
Write(entity, data, awaited) ==
    [path |-> FilePath(entity), file |-> saveContent(cryptor, data), awaited |-> awaited]

\* what saveAsync(entity, entityDataMap[entity]) does before it awaits the write
saveAsyncCheck(entity) ==
    IF saveCheck(cryptor, entityFilesMap, entity) # "none"
    THEN saveCheck(cryptor, entityFilesMap, entity)
    ELSE IF ~Cached(entity) THEN "EncryptError"   \* JSON.stringify(undefined) is no string
    ELSE "none"

\* saveFor up to its await
saveForWrites(entity) ==
    IF ~validateEntityForMethod(entity) /\ saveAsyncCheck(entity) = "none"
    THEN {Write(entity, entityDataMap[entity], TRUE)}
    ELSE {}

saveFor(entity) ==
    /\ Call
    /\ Cardinality(inflight \cup saveForWrites(entity)) <= MaxInflight
    /\ inflight' = inflight \cup saveForWrites(entity)
    /\ last' = IF validateEntityForMethod(entity)
               THEN Outcome("saveFor", entity, "UnknownEntityError", << >>)
               ELSE IF saveAsyncCheck(entity) # "none"
               THEN Outcome("saveFor", entity, saveAsyncCheck(entity), << >>)
               ELSE Outcome("saveFor", entity, "awaiting", << >>)
    /\ UNCHANGED <<entities, entityDataMap, cryptor, entityFilesMap, disk, now, entityImportData, entireDBImportData, folder, tasks>>

\* the writes saveAll starts: the callback of map() calls saveAsync and returns
\* nothing, so savePromises holds no promise and Promise.all waits for none
saveAllWrites ==
    {Write(e, entityDataMap[e], FALSE) : e \in {x \in DOMAIN entityDataMap : saveAsyncCheck(x) = "none"}}

saveAll ==
    /\ Call
    /\ Cardinality(inflight \cup saveAllWrites) <= MaxInflight
    /\ inflight' = inflight \cup saveAllWrites
    /\ last' = Outcome("saveAll", "", "none", << >>)
    /\ UNCHANGED <<entities, entityDataMap, cryptor, entityFilesMap, disk, now, entityImportData, entireDBImportData, folder, tasks>>

\* a variant in which the write is reported as done and the file is left alone
writeFileLost(w) ==
    /\ w \in inflight
    /\ inflight' = inflight \ {w}
    /\ last' = IF w.awaited THEN [last EXCEPT !.err = "none"] ELSE last
    /\ UNCHANGED <<entities, entityDataMap, cryptor, entityFilesMap, disk, now, calls, entityImportData, entireDBImportData, folder, tasks>>

\* the file system finishes a write: the file is replaced as a whole; the call
\* that awaits the write returns
writeFileDone(w) ==
    /\ w \in inflight
    /\ disk' = [disk EXCEPT ![w.path] = w.file]
    /\ inflight' = inflight \ {w}
    /\ last' = IF w.awaited THEN [last EXCEPT !.err = "none"] ELSE last
    /\ UNCHANGED <<entities, entityDataMap, cryptor, entityFilesMap, now, calls, entityImportData, entireDBImportData, folder, tasks>>

\* midnight passes
Tick ==
    /\ now < MaxDay
    /\ now' = now + 1
    /\ UNCHANGED <<entities, entityDataMap, cryptor, entityFilesMap, disk, inflight, last, calls, entityImportData, entireDBImportData, folder, tasks>>

Next ==
    \/ \E entity \in EntityNames \cup {""} : \E options \in RegisterOptions(entity) :
            registerEntity(entity, options)
    \/ \E entity \in EntityNames : removeEntityAndDeleteEntityData(entity)
    \/ _resetDBAndDeleteAllData
    \/ \E secrets \in SecretPairs : build(secrets[1], secrets[2])
    \/ \E entity \in EntityNames, filterCallback \in FilterCallbacks, forceFetch \in BOOLEAN :
            findFor(entity, filterCallback, forceFetch)
    \/ \E entity \in EntityNames, forceFetch \in BOOLEAN : findAllFor(entity, forceFetch)
    \/ \E entity \in EntityNames, id \in IdInputs : findByIdentifierFor(entity, id)
    \/ \E entity \in EntityNames, obj \in ObjInputs : createNewFor(entity, obj)
    \/ \E entity \in EntityNames, objDataArray \in ArrayInputs :
            createManyNewFor(entity, objDataArray)
    \/ \E entity \in EntityNames, id \in IdInputs, newData \in PatchInputs :
            updateFor(entity, id, newData)
    \/ \E entity \in EntityNames, id \in IdInputs : deleteFor(entity, id)
    \/ \E entity \in EntityNames : saveFor(entity)
    \/ saveAll
    \/ \E w \in inflight : writeFileDone(w)
    \/ Tick

Spec == Init /\ [][Next]_vars

(***************************************************************************)
(* DB: imports.                                                            *)
(***************************************************************************)
\* validateEntityImportDataStructure: TRUE when it throws (!data[0])
validateEntityImportDataStructure(isArray, items) == ~isArray \/ items = << >>

\* validateEntireDBStructure: TRUE when it throws (data[0], or a value that
\* validateEntityImportDataStructure rejects)
validateEntireDBStructure(file) ==
    IF file.isArray THEN file.items # << >>
    ELSE \E e \in DOMAIN file.map : validateEntityImportDataStructure(TRUE, file.map[e])

\* a variant without the check of the other import map
importDataFromJSONFileForEntityAnyway(entity, file) ==
    IF validateEntityForMethod(entity) THEN [err |-> "UnknownEntityError", data |-> entityImportData]
    ELSE IF isRunning THEN [err |-> "AlreadyBuiltError", data |-> entityImportData]
    ELSE IF file.ext # ".json" THEN [err |-> "InvalidExtensionError", data |-> entityImportData]
    ELSE IF validateEntityImportDataStructure(file.isArray, file.items)
    THEN [err |-> "InvalidImportStructureError", data |-> entityImportData]
    ELSE [err |-> "none", data |-> Put(entityImportData, entity, file.items)]

importDataFromJSONFileForEntityResult(entity, file) ==
    IF validateEntityForMethod(entity) THEN [err |-> "UnknownEntityError", data |-> entityImportData]
    ELSE IF isRunning THEN [err |-> "AlreadyBuiltError", data |-> entityImportData]
    ELSE IF entireDBImportData # EmptyMap
    THEN [err |-> "ImportConflictError", data |-> entityImportData]
    ELSE IF file.ext # ".json" THEN [err |-> "InvalidExtensionError", data |-> entityImportData]
    ELSE IF validateEntityImportDataStructure(file.isArray, file.items)
    THEN [err |-> "InvalidImportStructureError", data |-> entityImportData]
    ELSE [err |-> "none", data |-> Put(entityImportData, entity, file.items)]

importDataFromJSONFileForEntity(entity, file) ==
    /\ Call
    /\ entityImportData' = importDataFromJSONFileForEntityResult(entity, file).data
    /\ last' = Outcome("importDataFromJSONFileForEntity", entity,
                       importDataFromJSONFileForEntityResult(entity, file).err, << >>)
    /\ UNCHANGED <<entities, entityDataMap, cryptor, entityFilesMap, disk, inflight, now,
                   entireDBImportData, folder, tasks>>

\* a variant that imports into a store that is up
importDataFromJSONFileForEntireDBWhileUp(file) ==
    IF entityImportData # EmptyMap
    THEN [err |-> "ImportConflictError", data |-> entireDBImportData]
    ELSE IF file.ext # ".json" THEN [err |-> "InvalidExtensionError", data |-> entireDBImportData]
    ELSE IF validateEntireDBStructure(file)
    THEN [err |-> "InvalidImportStructureError", data |-> entireDBImportData]
    ELSE [err |-> "none", data |-> file.map]

importDataFromJSONFileForEntireDBResult(file) ==
    IF isRunning THEN [err |-> "AlreadyBuiltError", data |-> entireDBImportData]
    ELSE IF entityImportData # EmptyMap
    THEN [err |-> "ImportConflictError", data |-> entireDBImportData]
    ELSE IF file.ext # ".json" THEN [err |-> "InvalidExtensionError", data |-> entireDBImportData]
    ELSE IF validateEntireDBStructure(file)
    THEN [err |-> "InvalidImportStructureError", data |-> entireDBImportData]
    ELSE [err |-> "none", data |-> file.map]

importDataFromJSONFileForEntireDB(file) ==
    /\ Call
    /\ entireDBImportData' = importDataFromJSONFileForEntireDBResult(file).data
    /\ last' = Outcome("importDataFromJSONFileForEntireDB", "",
                       importDataFromJSONFileForEntireDBResult(file).err, << >>)
    /\ UNCHANGED <<entities, entityDataMap, cryptor, entityFilesMap, disk, inflight, now,
                   entityImportData, folder, tasks>>

\* registration, imports, build and reads
NextImport ==
    \/ \E entity \in EntityNames \cup {""} : \E options \in RegisterOptions(entity) :
            registerEntity(entity, options)
    \/ \E entity \in EntityNames : removeEntityAndDeleteEntityData(entity)
    \/ _resetDBAndDeleteAllData
    \/ \E secrets \in SecretPairs : build(secrets[1], secrets[2])
    \/ \E entity \in EntityNames, file \in ImportFiles :
            importDataFromJSONFileForEntity(entity, file)
    \/ \E file \in ImportFiles : importDataFromJSONFileForEntireDB(file)
    \/ \E entity \in EntityNames, forceFetch \in BOOLEAN : findFor(entity, "none", forceFetch)

SpecImport == Init /\ [][NextImport]_vars

(***************************************************************************)
(* DB: exports.                                                            *)
(***************************************************************************)
\* JSON.stringify(entityDataMap[entity]) and JSON.stringify(entityDataMap)
stringifyAll ==
    JSONText(FALSE, << >>, [e \in DOMAIN entityDataMap |-> JSONStringify(entityDataMap[e])])
\* a variant that exports what the entity's file holds
stringifyFile(entity) ==
    JSONText(TRUE, readAsync(cryptor, entityFilesMap, disk, entity).data, EmptyMap)
stringifyEntity(entity) ==
    JSONText(TRUE, IF Cached(entity) THEN JSONStringify(entityDataMap[entity]) ELSE << >>, EmptyMap)

\* a variant that leaves the folder in place when the extension is not .json
exportToKeep(fld, written, dataStr, filename, default) ==
    LET made == [exists |-> TRUE, files |-> fld.files]
        basename == IF filename = NoFilename THEN default ELSE filename
        named == IF extname(basename) = "" THEN [basename EXCEPT ![3] = ".json"] ELSE basename
    IN  IF extname(named) # ".json"
        THEN [err |-> "InvalidExtensionError", folder |-> made]
        ELSE IF ~written
        THEN [err |-> "WriteError", folder |-> made]
        ELSE [err |-> "none", folder |-> [made EXCEPT !.files = Put(@, named, dataStr)]]

\* the try block of both exports: create the folder if it does not exist, name
\* the file, remove the folder when the extension is not .json, write the file.
\* written is FALSE when dataStr is undefined, which writeFileSync rejects
exportTo(fld, written, dataStr, filename, default) ==
    LET made == [exists |-> TRUE, files |-> fld.files]
        basename == IF filename = NoFilename THEN default ELSE filename
        named == IF extname(basename) = "" THEN [basename EXCEPT ![3] = ".json"] ELSE basename
    IN  IF extname(named) # ".json"
        THEN [err |-> "InvalidExtensionError", folder |-> NoFolder]
        ELSE IF ~written
        THEN [err |-> "WriteError", folder |-> made]
        ELSE [err |-> "none", folder |-> [made EXCEPT !.files = Put(@, named, dataStr)]]

exportDataToJSONForEntityResult(entity, folderPath, filename) ==
    IF validateEntityForMethod(entity) THEN [err |-> "UnknownEntityError", folder |-> folder]
    ELSE IF folderPath = "" THEN [err |-> "InvalidParameterError", folder |-> folder]
    ELSE exportTo(folder, Cached(entity), stringifyEntity(entity), filename,
                  DEFAULT_ENTITY_EXPORT_FILENAME(entity))

\* branch tells whether the call found the folder or made it
exportDataToJSONForEntity(entity, folderPath, filename) ==
    /\ Call
    /\ folder' = exportDataToJSONForEntityResult(entity, folderPath, filename).folder
    /\ last' = [Outcome("exportDataToJSONForEntity", entity,
                        exportDataToJSONForEntityResult(entity, folderPath, filename).err, << >>)
                    EXCEPT !.branch = IF validateEntityForMethod(entity) \/ folderPath = "" THEN ""
                                      ELSE IF folder.exists THEN "existed" ELSE "created"]
    /\ UNCHANGED <<entities, entityDataMap, cryptor, entityFilesMap, disk, inflight, now,
                   entityImportData, entireDBImportData, tasks>>

exportEntireDatabaseToJSONResult(folderPath, filename) ==
    IF folderPath = "" THEN [err |-> "InvalidParameterError", folder |-> folder]
    ELSE exportTo(folder, TRUE, stringifyAll, filename, DEFAULT_ENTITY_EXPORT_FILENAME("all"))

exportEntireDatabaseToJSON(folderPath, filename) ==
    /\ Call
    /\ folder' = exportEntireDatabaseToJSONResult(folderPath, filename).folder
    /\ last' = [Outcome("exportEntireDatabaseToJSON", "",
                        exportEntireDatabaseToJSONResult(folderPath, filename).err, << >>)
                    EXCEPT !.branch = IF folderPath = "" THEN ""
                                      ELSE IF folder.exists THEN "existed" ELSE "created"]
    /\ UNCHANGED <<entities, entityDataMap, cryptor, entityFilesMap, disk, inflight, now,
                   entityImportData, entireDBImportData, tasks>>

\* the folder the exports go to, when the process starts: absent, or there with
\* a file of the user's in it
FoldersAtStart ==
    {NoFolder,
     [exists |-> TRUE,
      files |-> [n \in {FileName("notes", "", ".json")} |-> JSONText(TRUE, << >>, EmptyMap)]]}

InitExport ==
    /\ entities = << >>
    /\ entityDataMap = EmptyMap
    /\ cryptor = NoCryptor
    /\ entityFilesMap = NullMap
    /\ disk = [p \in EntityNames |-> NoFile]
    /\ inflight = {}
    /\ now = 0
    /\ last = Outcome("load", "", "none", << >>)
    /\ calls = 0
    /\ entityImportData = EmptyMap
    /\ entireDBImportData = EmptyMap
    /\ folder \in FoldersAtStart
    /\ tasks = {}

\* registration, build, creation, saving and exports
NextExport ==
    \/ \E entity \in EntityNames \cup {""} : \E options \in RegisterOptions(entity) :
            registerEntity(entity, options)
    \/ \E secrets \in SecretPairs : build(secrets[1], secrets[2])
    \/ \E entity \in EntityNames, obj \in ObjInputs : createNewFor(entity, obj)
    \/ \E entity \in EntityNames : saveFor(entity)
    \/ \E w \in inflight : writeFileDone(w)
    \/ \E entity \in EntityNames, folderPath \in FolderPaths, filename \in FilenameInputs :
            exportDataToJSONForEntity(entity, folderPath, filename)
    \/ \E folderPath \in FolderPaths, filename \in FilenameInputs :
            exportEntireDatabaseToJSON(folderPath, filename)

SpecExport == InitExport /\ [][NextExport]_vars

(***************************************************************************)
(* The DB module loaded by a process that finds the files an earlier        *)
(* process left: the file of an entity is absent or holds a saved record.   *)
(***************************************************************************)
LeftFiles ==
    {NoFile,
     Encrypt(Cryptor("sampleSecret", "sampleVector"),
             JSONStringify(<<[Obj(Str(2), NameB) EXCEPT !["createdAt"] = IsoString(0),
                                                        !["updatedAt"] = IsoString(0)]>>))}

InitRestart ==
    /\ entities = << >>
    /\ entityDataMap = EmptyMap
    /\ cryptor = NoCryptor
    /\ entityFilesMap = NullMap
    /\ disk \in {d \in [EntityNames -> LeftFiles] : d["comments"] = NoFile}
    /\ inflight = {}
    /\ now = 0
    /\ last = Outcome("load", "", "none", << >>)
    /\ calls = 0
    /\ entityImportData = EmptyMap
    /\ entireDBImportData = EmptyMap
    /\ folder = NoFolder
    /\ tasks = {}

SpecRestart == InitRestart /\ [][Next]_vars

(***************************************************************************)
(* The Record Store driven by a client of its own, as its tests drive it.  *)
(***************************************************************************)
UnchangedDB == UNCHANGED <<entities, entityDataMap, now, entityImportData, entireDBImportData, folder, tasks>>

DataReadWriter_initialize(cryptoSecret, vectorSecret, names) ==
    /\ Call
    /\ LET ini == initializeResult(cryptor, entityFilesMap, disk, cryptoSecret, vectorSecret, names)
       IN  /\ cryptor' = ini.cryptor
           /\ entityFilesMap' = ini.map
           /\ disk' = ini.disk
           /\ last' = [Outcome("initialize", "", ini.err, << >>) EXCEPT !.branch =
                            IF hasBeenInitialized(cryptor, entityFilesMap)
                            THEN "initialized" ELSE ""]
    /\ UNCHANGED inflight
    /\ UnchangedDB

DataReadWriter_resetAndDeleteAllData ==
    /\ Call
    /\ disk' = IF entityFilesMap.isNull THEN disk ELSE dropAllSyncDisk(entityFilesMap, disk)
    /\ cryptor' = NoCryptor
    /\ entityFilesMap' = NullMap
    /\ last' = Outcome("_resetAndDeleteAllData", "", "none", << >>)
    /\ UNCHANGED inflight
    /\ UnchangedDB

DataReadWriter_readSync(entity) ==
    /\ Call
    /\ last' = Outcome("readSync", entity, readSync(cryptor, entityFilesMap, disk, entity).err,
                       readSync(cryptor, entityFilesMap, disk, entity).data)
    /\ UNCHANGED <<cryptor, entityFilesMap, disk, inflight>>
    /\ UnchangedDB

DataReadWriter_readAsync(entity) ==
    /\ Call
    /\ last' = Outcome("readAsync", entity, readAsync(cryptor, entityFilesMap, disk, entity).err,
                       readAsync(cryptor, entityFilesMap, disk, entity).data)
    /\ UNCHANGED <<cryptor, entityFilesMap, disk, inflight>>
    /\ UnchangedDB

DataReadWriter_saveSync(entity, data) ==
    /\ Call
    /\ IF saveCheck(cryptor, entityFilesMap, entity) # "none"
       THEN /\ last' = Outcome("saveSync", entity, saveCheck(cryptor, entityFilesMap, entity), << >>)
            /\ UNCHANGED disk
       ELSE /\ disk' = [disk EXCEPT ![FilePath(entity)] = saveContent(cryptor, data)]
            /\ last' = Outcome("saveSync", entity, "none", data)
    /\ UNCHANGED <<cryptor, entityFilesMap, inflight>>
    /\ UnchangedDB

\* saveAsync up to its await; writeFileDone lands the write and the call returns data
DataReadWriter_saveAsync(entity, data) ==
    /\ Call
    /\ IF saveCheck(cryptor, entityFilesMap, entity) # "none"
       THEN /\ last' = Outcome("saveAsync", entity, saveCheck(cryptor, entityFilesMap, entity), << >>)
            /\ UNCHANGED inflight
       ELSE /\ inflight' = inflight \cup {Write(entity, data, TRUE)}
            /\ last' = Outcome("saveAsync", entity, "awaiting", data)
    /\ UNCHANGED <<cryptor, entityFilesMap, disk>>
    /\ UnchangedDB

DataReadWriter_dropSync(entity) ==
    /\ Call
    /\ IF saveCheck(cryptor, entityFilesMap, entity) # "none"
       THEN /\ last' = Outcome("dropSync", entity, saveCheck(cryptor, entityFilesMap, entity), << >>)
            /\ UNCHANGED <<disk, entityFilesMap>>
       ELSE /\ disk' = dropSyncDisk(entityFilesMap, disk, entity)
            /\ entityFilesMap' = dropSyncMap(entityFilesMap, entity)
            /\ last' = [Outcome("dropSync", entity, "none", << >>)
                            EXCEPT !.branch = IF disk[FilePath(entity)].exists
                                              THEN "unlinked" ELSE "absent"]
    /\ UNCHANGED <<cryptor, inflight>>
    /\ UnchangedDB

\* the secrets the client of the Record Store passes: those of the DB's client
\* and a second pair that is valid
SecretPairsRW == SecretPairs \cup {<<"otherSecret", "otherVector">>}

NextRW ==
    \/ \E secrets \in SecretPairsRW, names \in NameSets :
            DataReadWriter_initialize(secrets[1], secrets[2], names)
    \/ DataReadWriter_resetAndDeleteAllData
    \/ \E entity \in EntityNames : DataReadWriter_readSync(entity)
    \/ \E entity \in EntityNames : DataReadWriter_readAsync(entity)
    \/ \E entity \in EntityNames, data \in Collections : DataReadWriter_saveSync(entity, data)
    \/ \E entity \in EntityNames, data \in Collections : DataReadWriter_saveAsync(entity, data)
    \/ \E entity \in EntityNames : DataReadWriter_dropSync(entity)
    \/ \E w \in inflight : writeFileDone(w)

SpecRW == Init /\ [][NextRW]_vars

\* the client of the Record Store unlinks a data file itself, as the tests do
\* after a save
unlinkSync(entity) ==
    /\ disk[FilePath(entity)].exists
    /\ disk' = [disk EXCEPT ![FilePath(entity)] = NoFile]
    /\ UNCHANGED <<entities, entityDataMap, cryptor, entityFilesMap, inflight, now, last, calls, entityImportData, entireDBImportData, folder, tasks>>

\* the Record Store with a client that also unlinks files
NextUnlink ==
    \/ NextRW
    \/ \E entity \in EntityNames : unlinkSync(entity)

SpecUnlink == Init /\ [][NextUnlink]_vars

(***************************************************************************)
(* DB: calls issued without waiting for the previous one.  An async method  *)
(* runs up to its first await when it is called: with the entity in the     *)
(* cache there is none, without it the call is suspended at                 *)
(* "await DataReadWriter.readAsync(entity)" and goes on with what the read  *)
(* gave when the read is done.                                              *)
(***************************************************************************)
NoTaskArgs == [obj |-> Null, objDataArray |-> << >>, id |-> Undefined, newData |-> Null]
Task(op, entity, args) == [op |-> op, entity |-> entity, args |-> args]

\* a variant that awaits the read with the entity in the cache as well
awaitsReadAlways(entity, passed) == passed

\* "if (Object.keys(entityDataMap).includes(entity)) data = entityDataMap[entity]
\* else data = await DataReadWriter.readAsync(entity)", reached when the checks
\* before it have passed
awaitsRead(entity, passed) == passed /\ ~Cached(entity)

\* the rest of each method, from the data the read gave
createNewForAfterRead(entity, obj, rd) ==
    IF rd.err # "none" THEN Result(rd.err, entityDataMap, << >>)
    ELSE LET newDataObj == preSaveTransform(Descriptor(entity).options.preSaveTransform, obj)
             data == Append(rd.data, enrichDataWithDBProps(newDataObj, "create"))
         IN  Result("none", Put(entityDataMap, entity, data), data)

createManyNewForAfterRead(entity, objDataArray, rd) ==
    IF rd.err # "none" THEN Result(rd.err, entityDataMap, << >>)
    ELSE LET data == pushValidated(entity, rd.data, objDataArray) IN
         Result("none", Put(entityDataMap, entity, data), data)

updateForAfterRead(entity, id, newData, rd) ==
    IF rd.err # "none" THEN Result(rd.err, entityDataMap, << >>)
    ELSE IF Len(rd.data) = 0 THEN Result("NotFoundError", entityDataMap, << >>)
    ELSE LET key == objIdentifierKey(entity)
             i == firstIndexOf(rd.data, key, id)
         IN  IF i = 0 THEN Result("NotFoundError", entityDataMap, << >>)
             ELSE LET updatedData == mergeNewData(rd.data[i], newData, key)
                      data == [rd.data EXCEPT ![i] = updatedData]
                      hooks == Descriptor(entity).options
                  IN  IF ~validateOnCreate(hooks.validateOnCreate, updatedData)
                      THEN Result("ValidationError", entityDataMap, << >>)
                      ELSE LET transformedData == preSaveTransform(hooks.preSaveTransform, updatedData)
                               enrichedData == enrichDataWithDBProps(transformedData, "update")
                               after == forEachAssignItem(data, key, id, enrichedData)
                           IN  Result("none", Put(entityDataMap, entity, after), after)

deleteForAfterRead(entity, id, rd) ==
    IF rd.err # "none" THEN Result(rd.err, entityDataMap, << >>)
    ELSE IF Len(rd.data) = 0 THEN Result("NotFoundError", entityDataMap, << >>)
    ELSE LET key == objIdentifierKey(entity)
             Keep(item) == item[key] # id
             updatedData == SelectSeq(rd.data, Keep)
         IN  Result("none", Put(entityDataMap, entity, updatedData), updatedData)

AfterRead(t, rd) ==
    IF t.op = "createNewFor" THEN createNewForAfterRead(t.entity, t.args.obj, rd)
    ELSE IF t.op = "createManyNewFor"
    THEN createManyNewForAfterRead(t.entity, t.args.objDataArray, rd)
    ELSE IF t.op = "updateFor" THEN updateForAfterRead(t.entity, t.args.id, t.args.newData, rd)
    ELSE deleteForAfterRead(t.entity, t.args.id, rd)

\* a call: it is suspended at the read, or it runs to its end
Issue(op, entity, passed, res, args) ==
    /\ awaitsRead(entity, passed) => Cardinality(tasks \cup {Task(op, entity, args)}) <= MaxTasks
    /\ IF awaitsRead(entity, passed)
       THEN /\ tasks' = tasks \cup {Task(op, entity, args)}
            /\ entityDataMap' = entityDataMap
            /\ last' = Outcome(op, entity, "awaiting", << >>)
       ELSE /\ tasks' = tasks
            /\ entityDataMap' = res.map
            /\ last' = Outcome(op, entity, res.err, res.ret)
    /\ UNCHANGED <<entities, cryptor, entityFilesMap, disk, inflight, now, entityImportData, entireDBImportData, folder>>

createNewForTask(entity, obj) ==
    /\ Call
    /\ Room(entity, 1)
    /\ Issue("createNewFor", entity,
             /\ ~validateEntityForMethod(entity)
             /\ ~validateObjParamForMethod(obj)
             /\ validateOnCreate(Descriptor(entity).options.validateOnCreate, obj),
             createNewForResult(entity, obj), [NoTaskArgs EXCEPT !.obj = obj])

createManyNewForTask(entity, objDataArray) ==
    /\ Call
    /\ RoomForMany(entity, objDataArray)
    /\ Issue("createManyNewFor", entity,
             ~validateEntityForMethod(entity) /\ Len(objDataArray) >= 1,
             createManyNewForResult(entity, objDataArray),
             [NoTaskArgs EXCEPT !.objDataArray = objDataArray])

updateForTask(entity, id, newData) ==
    /\ Call
    /\ Issue("updateFor", entity,
             ~validateEntityForMethod(entity) /\ ~Falsy(id) /\ newData # Null,
             updateForResult(entity, id, newData),
             [NoTaskArgs EXCEPT !.id = id, !.newData = newData])

deleteForTask(entity, id) ==
    /\ Call
    /\ Issue("deleteFor", entity, ~validateEntityForMethod(entity) /\ ~Falsy(id),
             deleteForResult(entity, id), [NoTaskArgs EXCEPT !.id = id])

\* the read of a suspended call is done and the call runs to its end
readAsyncDone(t) ==
    /\ t \in tasks
    /\ tasks' = tasks \ {t}
    /\ LET res == AfterRead(t, readAsync(cryptor, entityFilesMap, disk, t.entity))
       IN  /\ Len(res.ret) <= MaxLen
           /\ entityDataMap' = res.map
           /\ last' = [Outcome(t.op, t.entity, res.err, res.ret) EXCEPT !.branch = "resumed"]
    /\ UNCHANGED <<entities, cryptor, entityFilesMap, disk, inflight, now, calls, entityImportData, entireDBImportData, folder>>

NextTasks ==
    \/ \E entity \in EntityNames : \E options \in RegisterOptions(entity) :
            registerEntity(entity, options)
    \/ \E names \in NameSets : DataReadWriter_initialize("sampleSecret", "sampleVector", names)
    \/ \E entity \in EntityNames : DataReadWriter_saveSync(entity, <<Obj(Str(2), NameA)>>)
    \/ \E secrets \in SecretPairs : build(secrets[1], secrets[2])
    \/ \E entity \in EntityNames, obj \in ObjInputs : createNewForTask(entity, obj)
    \/ \E entity \in EntityNames, objDataArray \in ArrayInputs :
            createManyNewForTask(entity, objDataArray)
    \/ \E entity \in EntityNames, id \in IdInputs, newData \in PatchInputs :
            updateForTask(entity, id, newData)
    \/ \E entity \in EntityNames, id \in IdInputs : deleteForTask(entity, id)
    \/ \E t \in tasks : readAsyncDone(t)

SpecTasks == Init /\ [][NextTasks]_vars

\* the DB with a Record Store that another client of the module initializes and
\* saves to: build tests DataReadWriter.isInitialized() for that case
NextElsewhere ==
    \/ \E entity \in EntityNames : \E options \in RegisterOptions(entity) :
            registerEntity(entity, options)
    \/ \E secrets \in SecretPairsRW, names \in NameSets :
            DataReadWriter_initialize(secrets[1], secrets[2], names)
    \/ \E entity \in EntityNames, data \in Collections : DataReadWriter_saveSync(entity, data)
    \/ \E secrets \in SecretPairs : build(secrets[1], secrets[2])
    \/ \E entity \in EntityNames, forceFetch \in BOOLEAN : findFor(entity, "none", forceFetch)
    \/ \E entity \in EntityNames, forceFetch \in BOOLEAN : findAllFor(entity, forceFetch)
    \/ \E entity \in EntityNames, obj \in ObjInputs : createNewFor(entity, obj)
    \/ \E entity \in EntityNames : saveFor(entity)
    \/ \E w \in inflight : writeFileDone(w)
    \/ _resetDBAndDeleteAllData

SpecElsewhere == Init /\ [][NextElsewhere]_vars

(***************************************************************************)
(* Properties.                                                             *)
(***************************************************************************)
\* what find(e, null, forceFetch = true) returns in the current state
ForcedFind(e) == readAsync(cryptor, entityFilesMap, disk, e)
\* what a collection held in memory reads back as once written and read
Image(data) == JSONParse(JSONStringify(data))
CrudOps == {"createNewFor", "createManyNewFor", "updateFor", "deleteFor"}
IdsOf(data, key) == [j \in DOMAIN data |-> data[j][key]]

C2_SaveOneDurable ==
    [][\A w \in inflight : (writeFileDone(w) /\ w.awaited) =>
            ForcedFind(w.path)' = [err |-> "none", data |-> Image(entityDataMap[w.path])]]_vars

\* C2 as stated: when saveFor(e) completes, a forced find of e returns a
\* collection equal to the cached collection of e.
C2_AsStated ==
    [][\A w \in inflight : (writeFileDone(w) /\ w.awaited) =>
            ForcedFind(w.path)' = [err |-> "none", data |-> entityDataMap[w.path]]]_vars

\* saveFor has completed on a collection holding a record created in this
\* process, and the file holds its image
C2_Witness ==
    /\ last.op = "saveFor"
    /\ last.err = "none"
    /\ Cached(last.entity)
    /\ \E i \in DOMAIN entityDataMap[last.entity] :
            entityDataMap[last.entity][i]["createdAt"][1] = "Date"
    /\ ForcedFind(last.entity).data = Image(entityDataMap[last.entity])

\* C3 as stated (with equality read as equality of JSON images): once saveAll
\* has returned, for every cached entity that is registered and mapped, a forced
\* find returns the cached collection.
C3_AsStated ==
    (last.op = "saveAll" /\ last.err = "none") =>
        \A e \in DOMAIN entityDataMap :
            (~validateEntityForMethod(e) /\ saveAsyncCheck(e) = "none") =>
                ForcedFind(e) = [err |-> "none", data |-> Image(entityDataMap[e])]

\* saveAll has returned while a write it started is in flight and the file does
\* not hold the cached collection
C3_Witness ==
    /\ last.op = "saveAll"
    /\ last.err = "none"
    /\ \E w \in inflight :
            /\ ~w.awaited
            /\ Cached(w.path)
            /\ w.file = saveContent(cryptor, entityDataMap[w.path])
            /\ ForcedFind(w.path).data # Image(entityDataMap[w.path])

\* the first four fields of the outcome of a call
Shown(o) == <<o.op, o.entity, o.err, o.ret>>

\* C5: a forced find (findFor of part_000, findAllFor of DB.js) of a registered
\* entity returns what the entity's file holds, filtered by the predicate when one is given, and leaves the
\* cache as it is: a non-forced find returns afterwards what it returned before.
C5_ForcedFindFrame ==
    [][(calls' # calls /\ last'.branch = "forceFetch") => \A e \in EntityNames :
        /\ \A f \in FilterCallbacks : (findFor(e, f, TRUE) /\ ~validateEntityForMethod(e)) =>
                /\ entityDataMap' = entityDataMap
                /\ findForResult(e, "none", FALSE)' = findForResult(e, "none", FALSE)
                /\ Shown(last') = <<"findFor", e, ForcedFind(e).err, filterBy(f, ForcedFind(e).data)>>
        /\ (findAllFor(e, TRUE) /\ ~validateEntityForMethod(e)) =>
                /\ entityDataMap' = entityDataMap
                /\ findAllForResult(e, FALSE)' = findAllForResult(e, FALSE)
                /\ Shown(last') = <<"findAllFor", e, ForcedFind(e).err, ForcedFind(e).data>>]_vars

\* a forced find has returned the collection of the file while the cache holds
\* an unsaved record more
C5_Witness ==
    /\ last.op \in {"findFor", "findAllFor"}
    /\ last.branch = "forceFetch"
    /\ last.err = "none"
    /\ last.ret = ForcedFind(last.entity).data
    /\ Cached(last.entity)
    /\ Len(entityDataMap[last.entity]) > Len(last.ret)
    /\ findForResult(last.entity, "none", FALSE).ret = entityDataMap[last.entity]

\* the record createNewFor(e, obj) rejects: absent or empty, or refused by the
\* validateOnCreate hook of e
Rejected(e, obj) ==
    validateObjParamForMethod(obj) \/ ~validateOnCreate(Descriptor(e).options.validateOnCreate, obj)

\* C6: createNewFor(e, obj) on a registered entity e with obj absent, empty or
\* refused by validateOnCreate fails with ValidationError and leaves the cache as
\* it is.
C6_ValidationGate ==
    [][(calls' # calls /\ last'.op = "createNewFor") => \A e \in EntityNames, obj \in ObjInputs :
        (createNewFor(e, obj) /\ ~validateEntityForMethod(e) /\ Rejected(e, obj)) =>
            /\ last'.err = "ValidationError"
            /\ entityDataMap' = entityDataMap]_vars

\* createNewFor has failed with ValidationError on an entity whose cached
\* collection holds a record
C6_Witness ==
    /\ last.op = "createNewFor"
    /\ last.err = "ValidationError"
    /\ Cached(last.entity)
    /\ Len(entityDataMap[last.entity]) > 0

\* C7 as stated: when updateFor fails with ValidationError, the cache is as it was
\* before the call.
C7_AsStated ==
    [][(calls' # calls /\ last'.op = "updateFor") =>
       \A e \in EntityNames, id \in IdInputs, newData \in PatchInputs :
        (updateFor(e, id, newData) /\ last'.err = "ValidationError") =>
            entityDataMap' = entityDataMap]_vars

\* updateFor has failed with ValidationError and the cached collection holds a
\* record with the rejected name
C7_Witness ==
    /\ last.op = "updateFor"
    /\ last.err = "ValidationError"
    /\ Cached(last.entity)
    /\ \E i \in DOMAIN entityDataMap[last.entity] :
            entityDataMap[last.entity][i]["name"] = EmptyString

\* C8: updateFor never changes an identifier: after any updateFor call every
\* cached collection holds the identifiers it held before, in the same order; a
\* call that succeeds leaves the matched record with identifier id and with every
\* other field of the patch applied.
C8_IdentifierImmutable ==
    [][(calls' # calls /\ last'.op = "updateFor") =>
       \A e \in EntityNames, id \in IdInputs, newData \in PatchInputs :
        updateFor(e, id, newData) =>
            /\ \A x \in DOMAIN entityDataMap :
                    /\ x \in DOMAIN entityDataMap'
                    /\ IdsOf(entityDataMap'[x], "id") = IdsOf(entityDataMap[x], "id")
            /\ last'.err = "none" =>
                    LET key == objIdentifierKey(e)
                        before == cachedOrRead(e).data
                        i == firstIndexOf(before, key, id)
                        after == entityDataMap'[e]
                    IN  /\ IdsOf(after, key) = IdsOf(before, key)
                        /\ after[i][key] = id
                        /\ \A f \in Fields \ {key} :
                                newData[f] # Undefined => after[i][f] = newData[f]]_vars

\* updateFor has succeeded with the patch {id: "2", name: NameB} on the record
\* with identifier "1": the record has the name of the patch and its own identifier
C8_Witness ==
    /\ last.op = "updateFor"
    /\ last.err = "none"
    /\ \E i \in DOMAIN entityDataMap[last.entity] :
            /\ entityDataMap[last.entity][i]["id"] = Str(1)
            /\ entityDataMap[last.entity][i]["name"] = NameB
    /\ \A i \in DOMAIN entityDataMap[last.entity] :
            entityDataMap[last.entity][i]["id"] # Str(2)

\* C9 as stated: after a successful updateFor(e, id, newData) the cached record
\* with identifier id is preSaveTransform of the merged record, with updatedAt the
\* day of the update and createdAt as before.
C9_AsStated ==
    [][(calls' # calls /\ last'.op = "updateFor") =>
       \A e \in EntityNames, id \in IdInputs, newData \in PatchInputs :
        (updateFor(e, id, newData) /\ last'.err = "none") =>
            LET key == objIdentifierKey(e)
                before == cachedOrRead(e).data
                i == firstIndexOf(before, key, id)
                merged == mergeNewData(before[i], newData, key)
                hook == Descriptor(e).options.preSaveTransform
            IN  entityDataMap'[e][i] =
                    [preSaveTransform(hook, merged) EXCEPT !["updatedAt"] = DateObj(now)]]_vars

\* updateFor has succeeded on an entity with the transformName hook and the
\* cached record holds the name of the patch as given
C9_Witness ==
    /\ last.op = "updateFor"
    /\ last.err = "none"
    /\ Descriptor(last.entity).options.preSaveTransform = "transformName"
    /\ \E i \in DOMAIN entityDataMap[last.entity] :
            entityDataMap[last.entity][i]["name"] = NameB

\* C10 (as amended): while the DB is not up, registerEntity(n) with a non-empty
\* string n returns, whether or not n is registered, and leaves exactly one
\* descriptor named n; getEntities maps every registered name to itself.
C10_RegisterOnce ==
    [][(calls' # calls /\ last'.op = "registerEntity") =>
       \A n \in EntityNames \cup {""} : \A options \in RegisterOptions(n) :
        (registerEntity(n, options) /\ ~isRunning /\ n # "") =>
            /\ last'.err = "none"
            /\ Cardinality({i \in DOMAIN entities' : entities'[i].name = n}) = 1
            /\ getEntities' = [k \in EntityKeys' |-> k]
            /\ EntityKeys' = EntityKeys \cup {n}]_vars

\* C10 as stated: while the DB is not up, registerEntity(n) returns for every
\* string n and leaves exactly one descriptor named n.
C10_AsStated ==
    [][(calls' # calls /\ last'.op = "registerEntity") =>
       \A n \in EntityNames \cup {""} : \A options \in RegisterOptions(n) :
        (registerEntity(n, options) /\ ~isRunning) =>
            /\ last'.err = "none"
            /\ Cardinality({i \in DOMAIN entities' : entities'[i].name = n}) = 1]_vars

\* registerEntity has returned for a name that was registered, and the registry
\* holds one descriptor with that name
C10_Witness ==
    /\ last.op = "registerEntity"
    /\ last.branch = "registered"
    /\ last.err = "none"
    /\ Cardinality({i \in DOMAIN entities : entities[i].name = last.entity}) = 1
    /\ getEntities = [k \in EntityKeys |-> k]

SaveOps == {"saveSync", "saveAsync"}
ReadOps == {"readSync", "readAsync"}

\* C4 (as amended): on an initialized store, saveSync(n, C) and saveAsync(n, C)
\* return C, and a readSync(n) or readAsync(n) that follows returns C as JSON
\* reads it back: equal to C but for the Date objects, which come back as ISO
\* strings.
C4_RoundTrip ==
    [][\A n \in EntityNames :
        /\ \A C \in Collections :
                /\ (DataReadWriter_saveSync(n, C) /\ last'.err = "none") => last'.ret = C
                /\ (DataReadWriter_saveAsync(n, C) /\ last'.err = "awaiting") => last'.ret = C
        /\ \A w \in inflight : (writeFileDone(w) /\ w.awaited) => last'.ret = last.ret
        /\ ((DataReadWriter_readSync(n) \/ DataReadWriter_readAsync(n))
                /\ last.op \in SaveOps /\ last.err = "none" /\ last.entity = n) =>
                    (last'.err = "none" /\ last'.ret = Image(last.ret))]_vars

\* C4 as stated: a read that follows a save of C returns a value equal to C.
C4_AsStated ==
    [][\A n \in EntityNames :
        ((DataReadWriter_readSync(n) \/ DataReadWriter_readAsync(n))
            /\ last.op \in SaveOps /\ last.err = "none" /\ last.entity = n) =>
                (last'.err = "none" /\ last'.ret = last.ret)]_vars

\* a read has returned, with ISO strings for timestamps, the record that was
\* saved with Date objects
C4_Witness ==
    /\ last.op \in ReadOps
    /\ last.err = "none"
    /\ Len(last.ret) > 0
    /\ last.ret[1]["id"] = Str(1)
    /\ last.ret[1]["createdAt"] = IsoString(0)

\* C11: while isUp() is true, registerEntity(n) fails with AlreadyBuiltError for
\* every name n, the empty one too, and leaves the registry, the cache and the
\* file mapping as they are.
C11_RegisterWhileUp ==
    [][(calls' # calls /\ last'.op = "registerEntity" /\ isRunning) =>
            /\ last'.err = "AlreadyBuiltError"
            /\ entities' = entities
            /\ entityDataMap' = entityDataMap
            /\ entityFilesMap' = entityFilesMap]_vars

\* registerEntity has failed with AlreadyBuiltError on a DB that is up
C11_Witness ==
    /\ last.op = "registerEntity"
    /\ last.err = "AlreadyBuiltError"
    /\ isRunning

\* C12 (as amended): while isUp() is true no call adds a descriptor, and the only
\* calls that change the registry are removeEntityAndDeleteEntityData, which
\* removes the descriptor it names, and _resetDBAndDeleteAllData.
C12_RegistryWhileUp ==
    [][isRunning =>
            /\ EntityKeys' \subseteq EntityKeys
            /\ entities' # entities =>
                    \/ last'.op = "_resetDBAndDeleteAllData"
                    \/ /\ last'.op = "removeEntityAndDeleteEntityData"
                       /\ EntityKeys' = EntityKeys \ {last'.entity}]_vars

\* C12 as stated: while the DB is up, the registry changes only by a reset.
C12_AsStated ==
    [][(isRunning /\ entities' # entities) => last'.op = "_resetDBAndDeleteAllData"]_vars

\* removeEntityAndDeleteEntityData has removed a descriptor and the DB is still up
C12_Witness ==
    /\ last.op = "removeEntityAndDeleteEntityData"
    /\ last.err = "none"
    /\ last.entity \notin EntityKeys
    /\ last.entity \in DOMAIN entityDataMap
    /\ isRunning

\* a build has passed its checks: secrets given, an entity registered
BuildRuns == calls' # calls /\ last'.op = "build" /\ last'.err \notin {"ConfigError", "NoEntitiesError"}

\* C13 (as amended): build called while the Record Store is initialized leaves
\* the cipher, the file mapping and the files as they are, and reads every
\* registered entity's file into the cache again: when it succeeds the cache holds
\* for every registered entity the collection of its file, and the entries of
\* other names are as before.
C13_BuildAgain ==
    [][(BuildRuns /\ hasBeenInitialized(cryptor, entityFilesMap)) =>
            /\ cryptor' = cryptor
            /\ entityFilesMap' = entityFilesMap
            /\ disk' = disk
            /\ last'.err = "none" =>
                    /\ DOMAIN entityDataMap' = DOMAIN entityDataMap \cup EntityKeys
                    /\ \A e \in EntityKeys : entityDataMap'[e] = ForcedFind(e).data
                    /\ \A e \in DOMAIN entityDataMap \ EntityKeys :
                            entityDataMap'[e] = entityDataMap[e]]_vars

\* C13 as stated: build called while the Record Store is initialized leaves the
\* file mapping, the files and the cache as they are.
C13_AsStated ==
    [][(BuildRuns /\ hasBeenInitialized(cryptor, entityFilesMap)) =>
            /\ entityFilesMap' = entityFilesMap
            /\ disk' = disk
            /\ entityDataMap' = entityDataMap]_vars

\* build has succeeded on an initialized Record Store
C13_Witness ==
    /\ last.op = "build"
    /\ last.branch = "initialized"
    /\ last.err = "none"
    /\ \A e \in EntityKeys : entityDataMap[e] = ForcedFind(e).data

\* C14: a build that succeeds on a DB that has entities registered and is not up
\* leaves isUp() true and, for every registered entity e, the cache holding
\* exactly the collection e's file holds (what a forced read returns), which is
\* the collection the file held before the build when it existed and the empty
\* collection when it did not.
C14_BuildPopulates ==
    [][(BuildRuns /\ last'.err = "none" /\ ~isRunning) =>
            /\ isRunning'
            /\ \A e \in EntityKeys :
                    /\ e \in DOMAIN entityDataMap'
                    /\ ForcedFind(e)' = [err |-> "none", data |-> entityDataMap'[e]]
                    /\ entityDataMap'[e] =
                            IF disk[FilePath(e)].exists
                            THEN JSONParse(Decrypt(cryptor', disk[FilePath(e)]))
                            ELSE << >>]_vars

\* a first build has succeeded with two entities registered: one whose file an
\* earlier process left, cached with that file's record, and one whose file the
\* build created, cached empty
C14_Witness ==
    /\ last.op = "build"
    /\ last.err = "none"
    /\ last.branch = ""
    /\ isRunning
    /\ \E e, f \in EntityKeys :
            /\ entityDataMap[e] # << >>
            /\ entityDataMap[f] = << >>
            /\ ForcedFind(e).data = entityDataMap[e]
            /\ ForcedFind(f).data = entityDataMap[f]

\* C15 as stated: a reset never fails, and when the last call made is
\* _resetDBAndDeleteAllData then getEntities() is empty, the cache is empty, the
\* Record Store is uninitialized, no entity file exists, isUp() is false, and a
\* build that follows the registration of any names reads the empty collection
\* for each of them.
C15_AsStated ==
    (last.op = "_resetDBAndDeleteAllData") =>
        /\ last.err = "none"
        /\ DOMAIN getEntities = {}
        /\ entityDataMap = EmptyMap
        /\ ~hasBeenInitialized(cryptor, entityFilesMap)
        /\ \A p \in DOMAIN disk : ~disk[p].exists
        /\ ~isRunning
        /\ \A names \in NameSets \ {{}} :
             LET ini == initializeResult(cryptor, entityFilesMap, disk,
                                         "sampleSecret", "sampleVector", names)
             IN  \A e \in names :
                    readSync(ini.cryptor, ini.map, ini.disk, e) = [err |-> "none", data |-> << >>]

\* after a reset, a write that saveAll started before the reset and did not wait
\* for has put a file with a saved record back
C15_Witness ==
    /\ last.op = "_resetDBAndDeleteAllData"
    /\ entities = << >>
    /\ entityDataMap = EmptyMap
    /\ ~hasBeenInitialized(cryptor, entityFilesMap)
    /\ \E p \in DOMAIN disk :
            /\ disk[p].exists
            /\ Decrypt(disk[p].key, disk[p]) # JSONStringify(<< >>)

\* the records waiting to seed the next build: the import maps are never both
\* filled
PendingImport == IF entireDBImportData # EmptyMap THEN entireDBImportData ELSE entityImportData

RecordsOfMode(op, e) ==
    IF op = "importDataFromJSONFileForEntity"
    THEN {file.items : file \in EntityFiles} \ {<< >>}
    ELSE {file.map[e] : file \in {f \in EntireDBFiles : e \in DOMAIN f.map}} \ {<< >>}
ImportOps == {"importDataFromJSONFileForEntity", "importDataFromJSONFileForEntireDB"}

ExportOps == {"exportDataToJSONForEntity", "exportEntireDatabaseToJSON"}
\* the files of the folder other than n are as they were
OthersKept(n) ==
    \A m \in DOMAIN folder'.files \ {n} :
        m \in DOMAIN folder.files /\ folder'.files[m] = folder.files[m]

\* C18: an export that succeeds writes one file that holds the JSON text of the
\* cached collection (of the whole cache for the whole-store export) as it is in
\* memory, unsaved changes included, leaves the other files of the folder alone,
\* and changes neither the cache nor any entity file nor the file mapping.
C18_ExportWritesCache ==
    [][(calls' # calls /\ last'.op \in ExportOps /\ last'.err = "none") =>
            /\ folder'.exists
            /\ \E n \in DOMAIN folder'.files :
                    /\ OthersKept(n)
                    /\ extname(n) = ".json"
                    /\ folder'.files[n] =
                            IF last'.op = "exportDataToJSONForEntity"
                            THEN JSONText(TRUE, JSONStringify(entityDataMap[last'.entity]), EmptyMap)
                            ELSE JSONText(FALSE, << >>,
                                    [e \in DOMAIN entityDataMap |-> JSONStringify(entityDataMap[e])])
            /\ UNCHANGED <<entityDataMap, disk, entityFilesMap, cryptor, entities>>]_vars

\* an export for an entity has succeeded while the cache holds a record that the
\* entity's file does not, and the exported file holds the record
C18_Witness ==
    /\ last.op = "exportDataToJSONForEntity"
    /\ last.err = "none"
    /\ entityDataMap[last.entity] # << >>
    /\ ForcedFind(last.entity) = [err |-> "none", data |-> << >>]
    /\ \E n \in DOMAIN folder.files :
            folder.files[n] = JSONText(TRUE, JSONStringify(entityDataMap[last.entity]), EmptyMap)

\* the filenames whose extension is neither empty nor .json
BadFilenames == {f \in FilenameInputs : extname(f) \notin {"", ".json"}}

\* C19: an export to a folder, for a registered entity or for the whole store,
\* with a filename whose extension is not .json fails with InvalidExtensionError
\* and writes no file; when the folder did not exist before the call it does not
\* exist after it.
C19_ExtensionGuard ==
    [][(calls' # calls /\ last'.op \in ExportOps) =>
         \A filename \in BadFilenames :
            (\/ \E entity \in EntityKeys : exportDataToJSONForEntity(entity, "exports", filename)
             \/ exportEntireDatabaseToJSON("exports", filename)) =>
                /\ last'.err = "InvalidExtensionError"
                /\ \A n \in DOMAIN folder'.files :
                        n \in DOMAIN folder.files /\ folder'.files[n] = folder.files[n]
                /\ ~folder.exists => ~folder'.exists]_vars

\* an export has failed with InvalidExtensionError on a folder that it had to
\* make, and the folder is not there
C19_Witness ==
    /\ last.op \in ExportOps
    /\ last.err = "InvalidExtensionError"
    /\ last.branch = "created"
    /\ ~folder.exists
    /\ isRunning

\* C20 as stated: when an export fails with InvalidExtensionError and the folder
\* existed before the call, the folder and every file it held are there after
\* the call.
C20_AsStated ==
    [][(calls' # calls /\ last'.op \in ExportOps /\ last'.err = "InvalidExtensionError"
            /\ folder.exists) =>
            /\ folder'.exists
            /\ \A n \in DOMAIN folder.files :
                    n \in DOMAIN folder'.files /\ folder'.files[n] = folder.files[n]]_vars

\* an export has failed with InvalidExtensionError on a folder that was there,
\* and the folder is gone
C20_Witness ==
    /\ last.op \in ExportOps
    /\ last.err = "InvalidExtensionError"
    /\ last.branch = "existed"
    /\ ~folder.exists

\* the records of objDataArray that pass the entity's validateOnCreate, in input
\* order, each transformed by preSaveTransform and stamped with the current day
Survivors(entity, objDataArray) ==
    LET Passes(obj) == validateOnCreate(Descriptor(entity).options.validateOnCreate, obj)
        kept == SelectSeq(objDataArray, Passes)
    IN  [i \in DOMAIN kept |->
            [preSaveTransform(Descriptor(entity).options.preSaveTransform, kept[i])
                EXCEPT !["createdAt"] = DateObj(now), !["updatedAt"] = DateObj(now)]]

\* C21: createManyNewFor(e, records) on a registered entity with a cached
\* collection leaves the collection as it was followed by the records that pass
\* validateOnCreate, in input order, each transformed and stamped, and returns
\* it without error whichever records fail; with an empty array it fails with
\* NoDataError and leaves the cache unchanged.
C21_CreateMany ==
    [][(calls' # calls /\ last'.op = "createManyNewFor") =>
         \A entity \in EntityKeys, objDataArray \in ArrayInputs :
            createManyNewFor(entity, objDataArray) =>
                IF objDataArray = << >>
                THEN last'.err = "NoDataError" /\ entityDataMap' = entityDataMap
                ELSE Cached(entity) =>
                        /\ last'.err = "none"
                        /\ entityDataMap'[entity] =
                                entityDataMap[entity] \o Survivors(entity, objDataArray)
                        /\ last'.ret = entityDataMap'[entity]
                        /\ \A e \in DOMAIN entityDataMap \ {entity} :
                                entityDataMap'[e] = entityDataMap[e]]_vars

\* createManyNewFor has returned a collection of two records for the entity whose
\* hook rejects the second input record: the record that was there and the first
\* input record, transformed
C21_Witness ==
    /\ last.op = "createManyNewFor"
    /\ last.err = "none"
    /\ last.entity = "categories"
    /\ Len(last.ret) = 2
    /\ last.ret[2]["name"] = Transformed(NameA)
    /\ last.ret = entityDataMap["categories"]

\* data without the records whose field key is id, the others in their order
Without(data, key, id) ==
    LET K == {i \in DOMAIN data : data[i][key] # id}
        Nth(j) == CHOOSE i \in K : Cardinality({k \in K : k <= i}) = j
    IN  [j \in 1..Cardinality(K) |-> data[Nth(j)]]

\* C22: deleteFor(e, id) on a registered entity with a cached collection: with an
\* absent id it fails with MissingArgsError and on an empty collection with
\* NotFoundError, the cache unchanged in both cases; on a non-empty collection it
\* succeeds, leaves exactly the records whose identifier differs from id, in their
\* previous order (the whole collection when none matches), and returns them.
C22_DeleteOne ==
    [][(calls' # calls /\ last'.op = "deleteFor") =>
         \A entity \in EntityKeys, id \in IdInputs :
            (deleteFor(entity, id) /\ Cached(entity)) =>
                IF Falsy(id)
                THEN last'.err = "MissingArgsError" /\ entityDataMap' = entityDataMap
                ELSE IF entityDataMap[entity] = << >>
                THEN last'.err = "NotFoundError" /\ entityDataMap' = entityDataMap
                ELSE /\ last'.err = "none"
                     /\ entityDataMap'[entity] =
                            Without(entityDataMap[entity], objIdentifierKey(entity), id)
                     /\ last'.ret = entityDataMap'[entity]
                     /\ \A e \in DOMAIN entityDataMap \ {entity} :
                            entityDataMap'[e] = entityDataMap[e]]_vars

\* deleteFor has removed a record and kept another one
C22_Witness ==
    /\ last.op = "deleteFor"
    /\ last.err = "none"
    /\ last.branch = "matched"
    /\ Len(last.ret) = 1
    /\ last.ret = entityDataMap[last.entity]

\* C23 as stated: removeEntityAndDeleteEntityData(n) on a registered entity
\* succeeds in every state; afterwards n is not registered, n's file does not
\* exist if the store was initialized, the descriptor and the file of every other
\* entity are as before, and an operation that names n is rejected as unknown.
C23_AsStated ==
    [][(calls' # calls /\ last'.op = "removeEntityAndDeleteEntityData"
            /\ last'.entity \in EntityKeys) =>
            /\ last'.err = "none"
            /\ EntityKeys' = EntityKeys \ {last'.entity}
            /\ hasBeenInitialized(cryptor, entityFilesMap) => ~disk'[FilePath(last'.entity)].exists
            /\ \A e \in EntityKeys \ {last'.entity} :
                    /\ Descriptor(e)' = Descriptor(e)
                    /\ disk'[FilePath(e)] = disk[FilePath(e)]
            /\ \A n \in EntityNames : n = last'.entity => validateEntityForMethod(n)']_vars

\* removeEntityAndDeleteEntityData has thrown out of dropSync for an entity that
\* was registered, after it deleted the descriptor
C23_Witness ==
    /\ last.op = "removeEntityAndDeleteEntityData"
    /\ last.err = "UnknownEntityError"
    /\ last.branch = "dropSync"
    /\ last.entity \notin EntityKeys
    /\ hasBeenInitialized(cryptor, entityFilesMap)

\* C24: once the Record Store is initialized, and until it is reset, every
\* initialize call, whatever its secrets and entity names (empty ones included),
\* returns without error and leaves the cipher, the file mapping and every file
\* as they are.
C24_InitializeOnce ==
    [][(calls' # calls /\ last'.op = "initialize"
            /\ hasBeenInitialized(cryptor, entityFilesMap)) =>
            /\ last'.err = "none"
            /\ cryptor' = cryptor
            /\ entityFilesMap' = entityFilesMap
            /\ disk' = disk]_vars

\* initialize has returned on a store that was initialized, which holds a cipher
\* and a mapping
C24_Witness ==
    /\ last.op = "initialize"
    /\ last.branch = "initialized"
    /\ last.err = "none"
    /\ hasBeenInitialized(cryptor, entityFilesMap)

EntityOpsRW == {"readSync", "readAsync", "saveSync", "saveAsync", "dropSync"}

\* C25: readSync, readAsync, saveSync, saveAsync and dropSync fail with
\* NotInitializedError when the Record Store is uninitialized and with
\* UnknownEntityError when it is initialized and the name is not in the mapping;
\* the failed call starts no write, leaves every file as it is and leaves the
\* mapping and the cipher unchanged.
C25_RejectedCalls ==
    [][(calls' # calls /\ last'.op \in EntityOpsRW) =>
            /\ ~hasBeenInitialized(cryptor, entityFilesMap) => last'.err = "NotInitializedError"
            /\ (hasBeenInitialized(cryptor, entityFilesMap)
                    /\ last'.entity \notin entityFilesMap.names) => last'.err = "UnknownEntityError"
            /\ last'.err \in {"NotInitializedError", "UnknownEntityError"} =>
                    /\ disk' = disk
                    /\ inflight' = inflight
                    /\ entityFilesMap' = entityFilesMap
                    /\ cryptor' = cryptor]_vars

\* a save has been rejected for a name that is not mapped, on an initialized
\* store that holds the file of another entity
C25_Witness ==
    /\ last.op \in {"saveSync", "saveAsync"}
    /\ last.err = "UnknownEntityError"
    /\ hasBeenInitialized(cryptor, entityFilesMap)
    /\ last.entity \notin entityFilesMap.names
    /\ ~disk[FilePath(last.entity)].exists
    /\ \E p \in DOMAIN disk : disk[p].exists

\* C26: dropSync(n) on a mapped entity returns without error whether n's file
\* exists or is already absent; after it n's file is absent, n is out of the
\* mapping, every other mapping entry and every other file is as before, and
\* read, save and drop of n are rejected with UnknownEntityError.
C26_DropMapped ==
    [][(calls' # calls /\ last'.op = "dropSync"
            /\ hasBeenInitialized(cryptor, entityFilesMap)
            /\ last'.entity \in entityFilesMap.names) =>
            /\ last'.err = "none"
            /\ ~disk'[FilePath(last'.entity)].exists
            /\ entityFilesMap'.names = entityFilesMap.names \ {last'.entity}
            /\ ~entityFilesMap'.isNull
            /\ \A p \in DOMAIN disk : p # FilePath(last'.entity) => disk'[p] = disk[p]
            /\ \A n \in EntityNames : n = last'.entity =>
                    /\ readSync(cryptor, entityFilesMap, disk, n)'.err = "UnknownEntityError"
                    /\ readAsync(cryptor, entityFilesMap, disk, n)'.err = "UnknownEntityError"
                    /\ saveCheck(cryptor, entityFilesMap, n)' = "UnknownEntityError"]_vars

\* a mapped entity whose file was already gone has been dropped, and the file
\* of another mapped entity is still there
C26_Witness ==
    /\ last.op = "dropSync"
    /\ last.err = "none"
    /\ last.branch = "absent"
    /\ last.entity \notin entityFilesMap.names
    /\ \E n \in entityFilesMap.names : disk[FilePath(n)].exists

\* a mapped entity's file has been unlinked by the drop
C26_WitnessUnlinked ==
    /\ last.op = "dropSync"
    /\ last.err = "none"
    /\ last.branch = "unlinked"
    /\ \E n \in entityFilesMap.names : disk[FilePath(n)].exists

EntityOps ==
    {"findFor", "findAllFor", "findByIdentifierFor", "createNewFor", "createManyNewFor",
     "updateFor", "deleteFor", "saveFor"}

\* C27: while the Record Store is uninitialized, find, findByIdentifier,
\* createOne, createMany, updateOne, deleteOne and saveOne on a registered entity
\* throw, and the call leaves the cache, the files and the writes in flight as
\* they were.
C27_BeforeBuild ==
    [][(calls' # calls /\ last'.op \in EntityOps
            /\ ~hasBeenInitialized(cryptor, entityFilesMap)
            /\ last'.entity \in EntityKeys) =>
            /\ last'.err \notin {"none", "awaiting"}
            /\ entityDataMap' = entityDataMap
            /\ disk' = disk
            /\ inflight' = inflight]_vars

\* createOne of a valid record has failed on a registered entity before any build
C27_Witness ==
    /\ last.op = "createNewFor"
    /\ last.err = "NotInitializedError"
    /\ last.entity \in EntityKeys
    /\ ~hasBeenInitialized(cryptor, entityFilesMap)
    /\ DOMAIN entityDataMap = {}
    /\ \A p \in DOMAIN disk : ~disk[p].exists

\* C28: build with an empty secret throws ConfigError, and build with both
\* secrets given and no registered entity throws NoEntitiesError; either call
\* leaves the cipher and the mapping of the Record Store, the files, the cache
\* and the pending import data as they were, so an uninitialized store stays
\* uninitialized, an empty cache stays empty and isUp() stays false.
C28_BuildRejected ==
    [][(calls' # calls /\ last'.op = "build") =>
        \A secrets \in SecretPairs :
            build(secrets[1], secrets[2]) =>
                /\ (secrets[1] = "" \/ secrets[2] = "") => last'.err = "ConfigError"
                /\ (secrets[1] # "" /\ secrets[2] # "" /\ Len(entities) = 0) =>
                        last'.err = "NoEntitiesError"
                /\ last'.err \in {"ConfigError", "NoEntitiesError"} =>
                        /\ cryptor' = cryptor
                        /\ entityFilesMap' = entityFilesMap
                        /\ disk' = disk
                        /\ entityDataMap' = entityDataMap
                        /\ entityImportData' = entityImportData
                        /\ entireDBImportData' = entireDBImportData
                        /\ ~hasBeenInitialized(cryptor, entityFilesMap) =>
                                ~hasBeenInitialized(cryptor, entityFilesMap)'
                        /\ ~isRunning => ~isRunning']_vars

\* build with an empty secret has been rejected with an entity registered, the
\* store uninitialized, the cache empty and no file on disk
C28_Witness ==
    /\ last.op = "build"
    /\ last.err = "ConfigError"
    /\ Len(entities) > 0
    /\ ~hasBeenInitialized(cryptor, entityFilesMap)
    /\ DOMAIN entityDataMap = {}
    /\ \A p \in DOMAIN disk : ~disk[p].exists
    /\ ~isRunning

\* build with both secrets has been rejected with no entity registered
C28_WitnessNoEntities ==
    /\ last.op = "build"
    /\ last.err = "NoEntitiesError"
    /\ ~hasBeenInitialized(cryptor, entityFilesMap)
    /\ DOMAIN entityDataMap = {}
    /\ \A p \in DOMAIN disk : ~disk[p].exists

\* the arguments initialize accepts on an uninitialized store
ValidInitialize(secrets, names) == secrets[1] # "" /\ secrets[2] # "" /\ names # {}

\* C29: initialize on an uninitialized store with an empty cryptoSecret, an
\* empty vectorSecret or an empty entity list throws ConfigError, creates no
\* file, and leaves the store uninitialized, so that an initialize with valid
\* arguments called next returns without error and initializes the store.
C29_InitializeRejected ==
    [][(calls' # calls /\ last'.op = "initialize"
            /\ ~hasBeenInitialized(cryptor, entityFilesMap)) =>
        \A secrets \in SecretPairsRW, names \in NameSets :
            (DataReadWriter_initialize(secrets[1], secrets[2], names)
                    /\ ~ValidInitialize(secrets, names)) =>
                /\ last'.err = "ConfigError"
                /\ disk' = disk
                /\ cryptor' = cryptor
                /\ entityFilesMap' = entityFilesMap
                /\ ~hasBeenInitialized(cryptor, entityFilesMap)'
                /\ \A later \in SecretPairsRW, laterNames \in NameSets :
                        ValidInitialize(later, laterNames) =>
                            LET ini == initializeResult(cryptor', entityFilesMap', disk',
                                                        later[1], later[2], laterNames)
                            IN  /\ ini.err = "none"
                                /\ hasBeenInitialized(ini.cryptor, ini.map)
                                /\ ini.map.names = laterNames]_vars

\* an initialize has been rejected on an uninitialized store with no file on disk
C29_Witness ==
    /\ last.op = "initialize"
    /\ last.err = "ConfigError"
    /\ ~hasBeenInitialized(cryptor, entityFilesMap)
    /\ \A p \in DOMAIN disk : ~disk[p].exists

ImportUnchanged ==
    /\ entityDataMap' = entityDataMap
    /\ entityImportData' = entityImportData
    /\ entireDBImportData' = entireDBImportData
    /\ disk' = disk
    /\ inflight' = inflight

\* C30 as stated: while isUp() is true every importForEntity and every
\* importForWholeStore fails with AlreadyBuiltError and leaves the cache, the
\* pending import data and the files unchanged.
C30_AsStated ==
    [][(calls' # calls /\ last'.op \in ImportOps /\ isRunning) =>
            /\ last'.err = "AlreadyBuiltError"
            /\ ImportUnchanged]_vars

\* C30: while isUp() is true, importForEntity on a registered entity and
\* importForWholeStore fail with AlreadyBuiltError, importForEntity on a name
\* that is not registered fails with UnknownEntityError, and each of them
\* leaves the cache, the pending import data and the files unchanged.
C30_ImportWhileUp ==
    [][(calls' # calls /\ last'.op \in ImportOps /\ isRunning) =>
            /\ (last'.op = "importDataFromJSONFileForEntireDB"
                    \/ last'.entity \in EntityKeys) => last'.err = "AlreadyBuiltError"
            /\ (last'.op = "importDataFromJSONFileForEntity"
                    /\ last'.entity \notin EntityKeys) => last'.err = "UnknownEntityError"
            /\ ImportUnchanged]_vars

\* an import for the whole store has been rejected on a store that is up, with
\* the files of its entities on disk
C30_Witness ==
    /\ last.op = "importDataFromJSONFileForEntireDB"
    /\ last.err = "AlreadyBuiltError"
    /\ isRunning
    /\ \A e \in EntityKeys : Cached(e) /\ disk[FilePath(e)].exists

\* an import for one registered entity has been rejected on a store that is up
C30_WitnessEntity ==
    /\ last.op = "importDataFromJSONFileForEntity"
    /\ last.err = "AlreadyBuiltError"
    /\ last.entity \in EntityKeys
    /\ isRunning

\* the collection an operation on x starts from
Held(x) == cachedOrRead(x).data
\* the records of data at the positions K, in their order
Kept(data, K) ==
    LET Nth(j) == CHOOSE i \in K : Cardinality({k \in K : k <= i}) = j
    IN  [j \in 1..Cardinality(K) |-> data[Nth(j)]]
FindOps == {"findFor", "findAllFor", "findByIdentifierFor"}

\* C31: records stay in the order of their creation.  createOne and createMany
\* put the new records after the ones held; updateOne keeps every position, with
\* its identifier; deleteOne leaves a selection of the records in their order;
\* find and the saves leave every collection as held; a save writes the
\* collection in the order of the cache, and a file only ever takes the content
\* of such a write.
C31_InsertionOrder ==
    [][/\ (calls' # calls /\ last'.op \in {"createNewFor", "createManyNewFor"}) =>
            \A x \in DOMAIN entityDataMap' :
                LET b == Held(x)
                    a == entityDataMap'[x]
                IN  /\ Len(a) >= Len(b)
                    /\ SubSeq(a, 1, Len(b)) = b
                    /\ \A i \in DOMAIN a : i > Len(b) => a[i]["createdAt"] = DateObj(now)
       /\ (calls' # calls /\ last'.op = "updateFor") =>
            \A x \in DOMAIN entityDataMap' :
                LET b == Held(x)
                    a == entityDataMap'[x]
                IN  /\ Len(a) = Len(b)
                    /\ \A i \in DOMAIN a : a[i]["id"] = b[i]["id"]
       /\ (calls' # calls /\ last'.op = "deleteFor") =>
            \A x \in DOMAIN entityDataMap' :
                \E K \in SUBSET DOMAIN Held(x) : entityDataMap'[x] = Kept(Held(x), K)
       /\ (calls' # calls /\ last'.op \in FindOps \cup {"saveFor", "saveAll"}) =>
            \A x \in DOMAIN entityDataMap' : entityDataMap'[x] = Held(x)
       /\ \A w \in inflight' \ inflight :
            /\ w.path \in DOMAIN entityDataMap
            /\ JSONParse(w.file.text) = Image(entityDataMap[w.path])
       /\ \A p \in DOMAIN disk :
            (disk'[p] # disk[p] /\ disk'[p].exists /\ disk'[p].text # << >>) =>
                \E w \in inflight : w.path = p /\ disk'[p] = w.file]_vars

\* a collection of two records created on different days is in that order
\* after an update
C31_Witness ==
    /\ last.op = "updateFor"
    /\ last.err = "none"
    /\ Len(entityDataMap[last.entity]) = 2
    /\ entityDataMap[last.entity][1]["createdAt"] = DateObj(0)
    /\ entityDataMap[last.entity][2]["createdAt"] = DateObj(1)

\* a file holds two records in the order of the cache
C31_WitnessDisk ==
    /\ \E e \in DOMAIN entityDataMap :
            /\ Len(entityDataMap[e]) = 2
            /\ entityDataMap[e][1]["id"] # entityDataMap[e][2]["id"]
            /\ disk[FilePath(e)].exists
            /\ JSONParse(disk[FilePath(e)].text) = Image(entityDataMap[e])

\* every cached record has a createdAt and an updatedAt
HasStamps ==
    \A x \in DOMAIN entityDataMap : \A i \in DOMAIN entityDataMap[x] :
        /\ entityDataMap[x][i]["createdAt"] # Undefined
        /\ entityDataMap[x][i]["updatedAt"] # Undefined
\* the records held before the step keep their createdAt: at their positions, or
\* as the selection a deleteOne leaves
KeepCreatedAt ==
    \A x \in DOMAIN entityDataMap \cap DOMAIN entityDataMap' :
        IF last'.op = "deleteFor"
        THEN \E K \in SUBSET DOMAIN entityDataMap[x] :
                entityDataMap'[x] = Kept(entityDataMap[x], K)
        ELSE \A i \in DOMAIN entityDataMap[x] :
                /\ i \in DOMAIN entityDataMap'[x]
                /\ entityDataMap'[x][i]["createdAt"] = entityDataMap[x][i]["createdAt"]
StampOps == CrudOps \cup FindOps \cup {"saveFor", "saveAll"}

C32_WitnessKept ==
    /\ last.op = "updateFor"
    /\ last.err = "none"
    /\ now = 1
    /\ \E i \in DOMAIN entityDataMap[last.entity] :
            /\ entityDataMap[last.entity][i]["createdAt"] = DateObj(0)
            /\ entityDataMap[last.entity][i]["name"] = NameB

\* the cached entities whose saveAsync throws
FailingSaves == {x \in DOMAIN entityDataMap : saveAsyncCheck(x) # "none"}

\* C33 as stated: when the save of some cached entity fails during saveAll, the
\* promise saveAll returned rejects.
C33_AsStated ==
    (last.op = "saveAll" /\ FailingSaves # {}) => last.err # "none"

\* saveAll has resolved although the save of a cached entity, whose mapping
\* entry was dropped, failed
C33_Witness ==
    /\ last.op = "saveAll"
    /\ last.err = "none"
    /\ hasBeenInitialized(cryptor, entityFilesMap)
    /\ \E x \in FailingSaves : x \notin entityFilesMap.names

\* a non-forced find of a registered entity that has no cache entry, on an
\* initialized store that maps the entity, has returned
FindMiss ==
    /\ calls' # calls
    /\ last'.op \in {"findFor", "findAllFor"}
    /\ last'.branch # "forceFetch"
    /\ last'.entity \in EntityKeys
    /\ ~Cached(last'.entity)
    /\ hasBeenInitialized(cryptor, entityFilesMap)
    /\ last'.entity \in entityFilesMap.names

\* C34 as stated: a non-forced find of a registered entity without cache entry,
\* the store initialized and mapping it, returns what the entity's file holds
\* and leaves the entity with that collection as its cache entry.
C34_AsStated ==
    [][FindMiss =>
        \A e \in EntityNames : e = last'.entity =>
            /\ last'.err = ForcedFind(e).err
            /\ last'.err = "none" =>
                    /\ last'.ret = ForcedFind(e).data
                    /\ e \in DOMAIN entityDataMap'
                    /\ entityDataMap'[e] = ForcedFind(e).data]_vars

\* findFor has returned the record the file holds and the entity has no cache
\* entry
C34_Witness ==
    /\ last.op = "findFor"
    /\ last.branch # "forceFetch"
    /\ last.err = "none"
    /\ last.ret # << >>
    /\ last.ret = ForcedFind(last.entity).data
    /\ last.entity \in EntityKeys
    /\ ~Cached(last.entity)

\* C35 as stated: the entities that have a cache entry are registered entities;
\* removeEntityAndDeleteEntityData(n) leaves no cached collection for n.
C35_AsStated == DOMAIN entityDataMap \subseteq EntityKeys

\* removeEntityAndDeleteEntityData(n) has returned, n is not registered and not
\* mapped, and the cache still holds a record of n
C35_Witness ==
    /\ last.op = "removeEntityAndDeleteEntityData"
    /\ last.err = "none"
    /\ last.entity \notin EntityKeys
    /\ last.entity \notin entityFilesMap.names
    /\ Cached(last.entity)
    /\ entityDataMap[last.entity] # << >>

\* C36 as stated: whenever isUp() is true every registered entity has a cache
\* entry and an entry in the mapping of the Record Store.
C36_AsStated ==
    isRunning => \A e \in EntityKeys : Cached(e) /\ e \in entityFilesMap.names

\* while isUp() is true a find on a registered entity has failed with
\* UnknownEntityError: the entity has no cache entry and no mapping entry
C36_Witness ==
    /\ last.op = "findFor"
    /\ last.err = "UnknownEntityError"
    /\ isRunning
    /\ last.entity \in EntityKeys
    /\ ~Cached(last.entity)
    /\ last.entity \notin entityFilesMap.names

\* C37 as stated: with at least one registered entity, build with two non-empty
\* secrets succeeds.
C37_AsStated ==
    [][(calls' # calls /\ last'.op = "build" /\ Len(entities) > 0) =>
        \A secrets \in SecretPairs :
            (build(secrets[1], secrets[2]) /\ secrets[1] # "" /\ secrets[2] # "") =>
                last'.err = "none"]_vars

\* build with two secrets has failed on a newly registered entity, after a build
\* and the removal of every entity: the store was initialized and does not map
\* the entity
C37_Witness ==
    /\ last.op = "build"
    /\ last.branch = "initialized"
    /\ last.err = "UnknownEntityError"
    /\ Len(entities) > 0
    /\ \E e \in EntityKeys : e \notin entityFilesMap.names
    /\ \A p \in DOMAIN disk : ~disk[p].exists

\* C38: a createOne, createMany, updateOne or deleteOne issued on an entity that
\* is in the cache is not suspended: it has run to its end when the call
\* returns, whatever other calls are suspended, and it has done to the cache
\* what the method does when it runs alone on the cache as it was.  Calls
\* issued one after the other on a cached entity therefore take effect in the
\* order of issue; a create keeps the records held and adds its own at the end.
C38_AtomicWhenCached ==
    [][(calls' # calls /\ last'.op \in CrudOps) =>
        \A e \in DOMAIN entityDataMap : e = last'.entity =>
            /\ tasks' = tasks
            /\ last'.err # "awaiting"
            /\ \A obj \in ObjInputs : createNewForTask(e, obj) =>
                    /\ entityDataMap' = createNewForResult(e, obj).map
                    /\ last'.err = "none" =>
                            /\ SubSeq(entityDataMap'[e], 1, Len(entityDataMap[e])) = entityDataMap[e]
                            /\ Len(entityDataMap'[e]) = Len(entityDataMap[e]) + 1
            /\ \A objDataArray \in ArrayInputs : createManyNewForTask(e, objDataArray) =>
                    /\ entityDataMap' = createManyNewForResult(e, objDataArray).map
                    /\ SubSeq(entityDataMap'[e], 1, Len(entityDataMap[e])) = entityDataMap[e]
            /\ \A id \in IdInputs, newData \in PatchInputs : updateForTask(e, id, newData) =>
                    entityDataMap' = updateForResult(e, id, newData).map
            /\ \A id \in IdInputs : deleteForTask(e, id) =>
                    entityDataMap' = deleteForResult(e, id).map]_vars

\* a createOne issued on a cached entity while another call is suspended has
\* run to its end: the cache holds its record after the one held before
C38_Witness ==
    /\ last.op = "createNewFor"
    /\ last.branch # "resumed"
    /\ last.err = "none"
    /\ tasks # {}
    /\ Cached(last.entity)
    /\ Len(entityDataMap[last.entity]) = 2
    /\ last.ret = entityDataMap[last.entity]

(***************************************************************************)
(* updateFor touches one record.                                           *)
(***************************************************************************)
\* the positions at which two collections of the same length differ
Changed(old, new) == {i \in DOMAIN old : new[i] # old[i]}

\* C39: updateOne(e, id, patch) changes at most one record of e, the earliest
\* inserted one whose identifier equals id, also when several records share the
\* identifier; every other record of e is left as it was, whatever the outcome
\* of the call.
C39_UpdatesEarliestOnly ==
    [][(calls' # calls /\ last'.op = "updateFor") =>
        \A e \in DOMAIN entityDataMap : e = last'.entity =>
            \A id \in IdInputs, newData \in PatchInputs : updateFor(e, id, newData) =>
                LET old == entityDataMap[e]
                    new == entityDataMap'[e]
                    key == objIdentifierKey(e)
                IN  /\ e \in DOMAIN entityDataMap'
                    /\ Len(new) = Len(old)
                    /\ Cardinality(Changed(old, new)) <= 1
                    /\ \A i \in Changed(old, new) :
                            /\ old[i][key] = id
                            /\ new[i][key] = id
                            /\ \A j \in 1..(i - 1) : old[j][key] # id]_vars

\* an update has changed the first of two records that share an identifier and
\* left the second as it was
C39_Witness ==
    /\ last.op = "updateFor"
    /\ last.err = "none"
    /\ Cached(last.entity)
    /\ LET data == entityDataMap[last.entity]
           key == objIdentifierKey(last.entity)
       IN  /\ Len(data) = 2
           /\ data[1][key] = data[2][key]
           /\ data[1]["name"] = NameB
           /\ data[2]["name"] = NameA

(***************************************************************************)
(* A call on one entity leaves the other entities alone.                   *)
(***************************************************************************)
EntityWriteOps == CrudOps \cup {"saveFor"}

\* entity b has the same cached collection (or none) after the step as before
SameCached(b) ==
    /\ (b \in DOMAIN entityDataMap') = (b \in DOMAIN entityDataMap)
    /\ b \in DOMAIN entityDataMap => entityDataMap'[b] = entityDataMap[b]

\* C40: createOne, createMany, updateOne, deleteOne and saveOne on an entity a
\* never change the cached collection or the file of another entity b: the
\* call itself leaves b's cache entry and every file as they were and starts
\* no write to another file than a's, and the write saveOne awaits replaces
\* a's file only.
C40_OtherEntitiesUntouched ==
    [][/\ (calls' # calls /\ last'.op \in EntityWriteOps) =>
            \A a \in EntityNames : a = last'.entity =>
                /\ \A b \in EntityNames \ {a} : SameCached(b)
                /\ disk' = disk
                /\ \A w \in inflight' \ inflight : w.path = FilePath(a)
       /\ (calls' = calls /\ last.op = "saveFor" /\ last.err = "awaiting" /\ last'.err = "none") =>
            \A a \in EntityNames : a = last.entity =>
                /\ entityDataMap' = entityDataMap
                /\ \A b \in EntityNames \ {a} : disk'[FilePath(b)] = disk[FilePath(b)]]_vars

\* a record has been created for one entity while another registered entity
\* holds a record of its own
C40_Witness ==
    /\ last.op \in CrudOps
    /\ last.err = "none"
    /\ Cached(last.entity)
    /\ Len(entityDataMap[last.entity]) = 1
    /\ \E b \in EntityKeys \ {last.entity} :
            /\ Cached(b)
            /\ Len(entityDataMap[b]) = 1
            /\ entityDataMap[b] # entityDataMap[last.entity]

\* saveFor has written a record to its entity's file while the file of another
\* registered entity still holds the empty collection
C40_WitnessDisk ==
    /\ last.op = "saveFor"
    /\ last.err = "none"
    /\ disk[FilePath(last.entity)] = saveContent(cryptor, entityDataMap[last.entity])
    /\ Len(entityDataMap[last.entity]) = 1
    /\ \E b \in EntityKeys \ {last.entity} :
            /\ Cached(b)
            /\ disk[FilePath(b)] = saveContent(cryptor, << >>)
====
